---- MODULE Spec2Model ----
(***************************************************************************)
(* Pedicalc: the pediatric input-validation library (medical-validation)   *)
(* and the dosage calculator (calculateSafeDosage) built on it.            *)
(*                                                                         *)
(* JavaScript numbers are modelled as exact rationals (n/d in lowest       *)
(* terms) together with NaN, Infinity and -Infinity.  Input strings are    *)
(* sequences of one-character strings, parsed the way parseFloat parses.   *)
(***************************************************************************)
EXTENDS Integers, Sequences, FiniteSets, TLC

(***************************************************************************)
(* Numbers                                                                 *)
(***************************************************************************)
Abs(x) == IF x < 0 THEN -x ELSE x

RECURSIVE Gcd(_, _)
Gcd(a, b) == IF b = 0 THEN a ELSE Gcd(b, a % b)

\* The finite number n/d (d > 0), in lowest terms.
Fin(n, d) ==
    LET g == Gcd(Abs(n), d)
    IN  [k |-> "fin", n |-> n \div g, d |-> d \div g]

Num(n) == [k |-> "fin", n |-> n, d |-> 1]
NaN == [k |-> "nan", n |-> 0, d |-> 1]
Infinity == [k |-> "inf", n |-> 1, d |-> 1]
NegInfinity == [k |-> "inf", n |-> -1, d |-> 1]
\* An optional argument that was not passed.
undefined == [k |-> "undef", n |-> 0, d |-> 1]

isNaN(x) == x.k # "fin" /\ x.k # "inf"
isFinite(x) == x.k = "fin"
Sign(x) == IF x.n > 0 THEN 1 ELSE IF x.n < 0 THEN -1 ELSE 0
\* JavaScript truthiness of a number: undefined, NaN and 0 are falsy.
Truthy(x) == ~isNaN(x) /\ x.n # 0

\* a/b < c/d for b, d > 0, by comparing the continued-fraction expansions
\* (no product is formed).
RECURSIVE RatLess(_, _, _, _)
RatLess(a, b, c, d) ==
    LET qa == a \div b
        qc == c \div d
        ra == a % b
        rc == c % d
    IN  IF qa # qc THEN qa < qc
        ELSE IF rc = 0 THEN FALSE
        ELSE IF ra = 0 THEN TRUE
        ELSE RatLess(d, rc, b, ra)

\* x < y as JavaScript evaluates it: false whenever an operand is NaN.
Less(x, y) ==
    IF isNaN(x) \/ isNaN(y) THEN FALSE
    ELSE IF x.k = "inf" THEN x.n < 0 /\ ~(y.k = "inf" /\ y.n < 0)
    ELSE IF y.k = "inf" THEN y.n > 0
    ELSE RatLess(x.n, x.d, y.n, y.d)

Greater(x, y) == Less(y, x)
LessEq(x, y) == ~isNaN(x) /\ ~isNaN(y) /\ ~Less(y, x)
GreaterEq(x, y) == LessEq(y, x)

\* x * y.
Times(x, y) ==
    IF isNaN(x) \/ isNaN(y) THEN NaN
    ELSE IF x.k = "inf" \/ y.k = "inf"
    THEN IF Sign(x) * Sign(y) = 0 THEN NaN
         ELSE IF Sign(x) * Sign(y) > 0 THEN Infinity ELSE NegInfinity
    ELSE LET g1 == Gcd(Abs(x.n), y.d)
             g2 == Gcd(Abs(y.n), x.d)
         IN  IF x.n = 0 \/ y.n = 0 THEN Num(0)
             ELSE Fin((x.n \div g1) * (y.n \div g2), (x.d \div g2) * (y.d \div g1))

\* x + y.
Plus(x, y) ==
    IF isNaN(x) \/ isNaN(y) THEN NaN
    ELSE IF x.k = "inf" /\ y.k = "inf" THEN IF x.n = y.n THEN x ELSE NaN
    ELSE IF x.k = "inf" THEN x
    ELSE IF y.k = "inf" THEN y
    ELSE Fin(x.n * (y.d \div Gcd(x.d, y.d)) + y.n * (x.d \div Gcd(x.d, y.d)),
             x.d * (y.d \div Gcd(x.d, y.d)))

\* x / y.
Over(x, y) ==
    IF isNaN(x) \/ isNaN(y) THEN NaN
    ELSE IF y.k = "inf" THEN IF x.k = "inf" THEN NaN ELSE Num(0)
    ELSE IF y.n = 0
    THEN IF Sign(x) = 0 THEN NaN
         ELSE IF Sign(x) > 0 THEN Infinity ELSE NegInfinity
    ELSE Times(x, [k |-> "fin", n |-> Sign(y) * y.d, d |-> Abs(y.n)])

RECURSIVE Pow10(_)
Pow10(e) == IF e = 0 THEN 1 ELSE 10 * Pow10(e - 1)

\* Number.prototype.toString().split('.')[1].length for a plain decimal:
\* the number of digits after the decimal point (0 when there is no point).
RECURSIVE DecimalPartLength(_)
DecimalPartLength(x) ==
    IF x.k # "fin" \/ x.d = 1 THEN 0
    ELSE 1 + DecimalPartLength(Times(x, Num(10)))

\* Math.round(x): the nearest integer, halves rounded up.
MathRound(x) ==
    IF x.k # "fin" THEN x ELSE Num((2 * x.n + x.d) \div (2 * x.d))

\* Number.prototype.toFixed(digits): the decimal with that many digits
\* nearest to x, halves rounded away from zero.
toFixed(x, digits) ==
    IF x.k # "fin" THEN x
    ELSE LET y == Times(x, Num(Pow10(digits)))
             q == Abs(y.n) \div y.d
             r == Abs(y.n) % y.d
             m == IF 2 * r >= y.d THEN q + 1 ELSE q
         IN  Fin(Sign(y) * m, Pow10(digits))

(***************************************************************************)
(* Strings                                                                 *)
(***************************************************************************)
Digits == <<"0", "1", "2", "3", "4", "5", "6", "7", "8", "9">>
IsDigit(c) == \E i \in 1..10 : Digits[i] = c
DigitValue(c) == (CHOOSE i \in 1..10 : Digits[i] = c) - 1
IsSpace(c) == c = " "

RECURSIVE TrimStart(_)
TrimStart(s) ==
    IF s # <<>> /\ IsSpace(Head(s)) THEN TrimStart(Tail(s)) ELSE s

RECURSIVE TrimEnd(_)
TrimEnd(s) ==
    IF s # <<>> /\ IsSpace(s[Len(s)]) THEN TrimEnd(SubSeq(s, 1, Len(s) - 1)) ELSE s

\* String.prototype.trim()
trim(s) == TrimEnd(TrimStart(s))

\* The longest prefix of s made of digits.
RECURSIVE DigitPrefix(_)
DigitPrefix(s) ==
    IF s # <<>> /\ IsDigit(Head(s)) THEN <<Head(s)>> \o DigitPrefix(Tail(s)) ELSE <<>>

RECURSIVE DigitsValue(_, _)
DigitsValue(s, acc) ==
    IF s = <<>> THEN acc ELSE DigitsValue(Tail(s), 10 * acc + DigitValue(Head(s)))

InfinityLiteral == <<"I", "n", "f", "i", "n", "i", "t", "y">>
StartsWith(s, p) == Len(s) >= Len(p) /\ SubSeq(s, 1, Len(p)) = p

\* parseFloat(s): leading white space is skipped, then the longest prefix
\* that is a decimal literal (sign, digits, point, digits) or Infinity is
\* read; NaN when there is none.  Anything after the literal is ignored.
parseFloat(s) ==
    LET t == TrimStart(s)
        neg == t # <<>> /\ Head(t) = "-"
        signed == t # <<>> /\ (Head(t) = "-" \/ Head(t) = "+")
        u == IF signed THEN Tail(t) ELSE t
        ip == DigitPrefix(u)
        afterInt == SubSeq(u, Len(ip) + 1, Len(u))
        fp == IF afterInt # <<>> /\ Head(afterInt) = "."
              THEN DigitPrefix(Tail(afterInt)) ELSE <<>>
        mant == DigitsValue(ip \o fp, 0)
    IN  IF StartsWith(u, InfinityLiteral)
        THEN IF neg THEN NegInfinity ELSE Infinity
        ELSE IF ip = <<>> /\ fp = <<>> THEN NaN
        ELSE Fin(IF neg THEN -mant ELSE mant, Pow10(Len(fp)))

(***************************************************************************)
(* medical-validation: limits and unit conversion                          *)
(***************************************************************************)
AGE_LIMITS ==
    [MIN_NEONATE |-> Num(0), MAX_NEONATE |-> Num(1), MIN_INFANT |-> Num(0),
     MAX_INFANT |-> Num(12), MIN_TODDLER |-> Num(12), MAX_TODDLER |-> Num(36),
     MIN_CHILD |-> Num(36), MAX_CHILD |-> Num(216), ABSOLUTE_MAX |-> Num(216)]

WEIGHT_LIMITS ==
    [MIN_NEONATE |-> Fin(5, 10), MAX_NEONATE |-> Num(6), MIN_INFANT |-> Num(2),
     MAX_INFANT |-> Num(15), MIN_CHILD |-> Num(8), MAX_CHILD |-> Num(100),
     ABSOLUTE_MIN |-> Fin(5, 10), ABSOLUTE_MAX |-> Num(100)]

DOSAGE_LIMITS ==
    [MIN_DOSE |-> Fin(1, 1000), MAX_DOSE |-> Num(100), TYPICAL_MAX |-> Num(50),
     DANGER_THRESHOLD |-> Num(75)]

convertAgeToMonths(age, unit) ==
    CASE unit = "years" -> Times(age, Num(12))
      [] unit = "days" -> Over(age, Fin(3044, 100))
      [] OTHER -> age

convertWeightToKg(weight, unit) ==
    IF unit = "lbs" THEN Times(weight, Fin(453592, 1000000)) ELSE weight

(***************************************************************************)
(* Messages.  A message is its fixed text together with the medication     *)
(* name and the numbers that the template interpolates into it.            *)
(***************************************************************************)
Message(text, med, vals) == [text |-> text, med |-> med, vals |-> vals]
Msg(text) == Message(text, "", <<>>)

\* result.errors.push(msg); result.safetyLevel = 'danger'; return result
Fail(result, msg) ==
    [result EXCEPT !.errors = @ \o <<msg>>, !.safetyLevel = "danger"]

NewValidationResult(normalizedValue) ==
    [isValid |-> FALSE, errors |-> <<>>, warnings |-> <<>>,
     normalizedValue |-> normalizedValue, safetyLevel |-> "safe"]

(***************************************************************************)
(* validateAge.  Each operator below is a stretch of the function's body,  *)
(* taking the locals computed so far as parameters.                        *)
(***************************************************************************)
\* The unit-specific checks and the successful return.
AgeUnitChecks(result, ageNum, ageUnit) ==
    IF ageUnit = "years" /\ Greater(ageNum, Num(18))
    THEN Fail(result, Msg("Maximum age for pediatric calculations is 18 years"))
    ELSE IF ageUnit = "days" /\ Greater(ageNum, Num(6570))
    THEN Fail(result, Msg("Age in days exceeds pediatric range"))
    ELSE IF ageUnit = "days" /\ Less(ageNum, Num(1))
    THEN Fail(result, Msg("Age must be at least 1 day"))
    ELSE [result EXCEPT !.isValid = TRUE]

\* AgeBand with the infant warning raising the level as the neonate one does.
AgeBand_InfantCaution(result, ageInMonths) ==
    IF LessEq(ageInMonths, AGE_LIMITS.MAX_NEONATE)
    THEN [result EXCEPT
            !.warnings = @ \o <<Msg("Neonate detected: Use extreme caution with dosing. Consider neonatal-specific guidelines.")>>,
            !.safetyLevel = "caution"]
    ELSE IF LessEq(ageInMonths, AGE_LIMITS.MAX_INFANT)
    THEN [result EXCEPT
            !.warnings = @ \o <<Msg("Infant detected: Verify weight-based dosing is appropriate.")>>,
            !.safetyLevel = "caution"]
    ELSE result

\* The neonate and infant warnings.
AgeBand(result, ageInMonths) ==
    IF LessEq(ageInMonths, AGE_LIMITS.MAX_NEONATE)
    THEN [result EXCEPT
            !.warnings = @ \o <<Msg("Neonate detected: Use extreme caution with dosing. Consider neonatal-specific guidelines.")>>,
            !.safetyLevel = "caution"]
    ELSE IF LessEq(ageInMonths, AGE_LIMITS.MAX_INFANT)
    THEN [result EXCEPT
            !.warnings = @ \o <<Msg("Infant detected: Verify weight-based dosing is appropriate.")>>]
    ELSE result

\* The check against the pediatric range, on the age in months.
AgeRange(result, ageNum, ageUnit, ageInMonths) ==
    IF Greater(ageInMonths, AGE_LIMITS.ABSOLUTE_MAX)
    THEN Fail([result EXCEPT !.normalizedValue = ageInMonths],
              Msg("Patient age exceeds pediatric range (maximum 18 years)"))
    ELSE AgeUnitChecks(AgeBand([result EXCEPT !.normalizedValue = ageInMonths],
                               ageInMonths),
                       ageNum, ageUnit)

\* The decimal-precision warning.
AgePrecision(result, ageNum) ==
    IF DecimalPartLength(ageNum) > 2
    THEN [result EXCEPT
            !.warnings = @ \o <<Msg("Age should not have more than 2 decimal places for accuracy")>>]
    ELSE result

\* AgeNumber with ageNum < 0 in place of ageNum <= 0.
AgeNumber_ZeroAccepted(result, ageNum, ageUnit) ==
    IF isNaN(ageNum)
    THEN Fail(result, Msg("Age must be a valid number"))
    ELSE IF Less(ageNum, Num(0))
    THEN Fail(result, Msg("Age must be greater than zero"))
    ELSE AgeRange(AgePrecision(result, ageNum), ageNum, ageUnit,
                  convertAgeToMonths(ageNum, ageUnit))

\* The checks on the parsed number.
AgeNumber(result, ageNum, ageUnit) ==
    IF isNaN(ageNum)
    THEN Fail(result, Msg("Age must be a valid number"))
    ELSE IF LessEq(ageNum, Num(0))
    THEN Fail(result, Msg("Age must be greater than zero"))
    ELSE AgeRange(AgePrecision(result, ageNum), ageNum, ageUnit,
                  convertAgeToMonths(ageNum, ageUnit))

validateAge(age, ageUnit) ==
    IF age = <<>> \/ trim(age) = <<>>
    THEN Fail(NewValidationResult(undefined), Msg("Age is required"))
    ELSE AgeNumber(NewValidationResult(undefined), parseFloat(trim(age)), ageUnit)

(***************************************************************************)
(* validateWeight                                                          *)
(***************************************************************************)
\* The very-low-weight warning and the successful return.
WeightLow(result, weightInKg) ==
    IF Less(weightInKg, Fin(25, 10))
    THEN [result EXCEPT
            !.warnings = @ \o <<Msg("Very low birth weight detected: Consider specialized neonatal guidelines")>>,
            !.safetyLevel = "caution",
            !.isValid = TRUE]
    ELSE [result EXCEPT !.isValid = TRUE]

\* The precision warning.
WeightPrecision(result, weightNum, weightInKg) ==
    IF Less(weightInKg, Num(1)) /\ DecimalPartLength(weightNum) > 3
    THEN [result EXCEPT
            !.warnings = @ \o <<Msg("For weights under 1kg, consider using grams for better precision")>>]
    ELSE result

\* WeightBand rejecting a weight outside the band of the age.
WeightBand_Rejecting(result, weightInKg, ageInMonths) ==
    IF ageInMonths # undefined /\ LessEq(ageInMonths, AGE_LIMITS.MAX_NEONATE)
    THEN IF Less(weightInKg, WEIGHT_LIMITS.MIN_NEONATE)
            \/ Greater(weightInKg, WEIGHT_LIMITS.MAX_NEONATE)
         THEN Fail(result, Msg("Weight unusual for neonate (typical range: 0.5-6kg)"))
         ELSE result
    ELSE IF ageInMonths # undefined /\ LessEq(ageInMonths, AGE_LIMITS.MAX_INFANT)
    THEN IF Less(weightInKg, WEIGHT_LIMITS.MIN_INFANT)
            \/ Greater(weightInKg, WEIGHT_LIMITS.MAX_INFANT)
         THEN Fail(result, Msg("Weight unusual for infant age (typical range: 2-15kg)"))
         ELSE result
    ELSE result

\* The age-based weight bands.
WeightBand(result, weightInKg, ageInMonths) ==
    IF ageInMonths # undefined /\ LessEq(ageInMonths, AGE_LIMITS.MAX_NEONATE)
    THEN IF Less(weightInKg, WEIGHT_LIMITS.MIN_NEONATE)
            \/ Greater(weightInKg, WEIGHT_LIMITS.MAX_NEONATE)
         THEN [result EXCEPT
                 !.warnings = @ \o <<Msg("Weight unusual for neonate (typical range: 0.5-6kg)")>>,
                 !.safetyLevel = "caution"]
         ELSE result
    ELSE IF ageInMonths # undefined /\ LessEq(ageInMonths, AGE_LIMITS.MAX_INFANT)
    THEN IF Less(weightInKg, WEIGHT_LIMITS.MIN_INFANT)
            \/ Greater(weightInKg, WEIGHT_LIMITS.MAX_INFANT)
         THEN [result EXCEPT
                 !.warnings = @ \o <<Msg("Weight unusual for infant age (typical range: 2-15kg)")>>,
                 !.safetyLevel = "caution"]
         ELSE result
    ELSE result

\* WeightRange with <= and >= in place of < and >: the endpoints rejected.
WeightRange_OpenInterval(result, weightNum, weightInKg, ageInMonths) ==
    IF LessEq(weightInKg, WEIGHT_LIMITS.ABSOLUTE_MIN)
    THEN Fail([result EXCEPT !.normalizedValue = weightInKg],
              Msg("Weight too low for safe calculations (minimum 0.5kg)"))
    ELSE IF GreaterEq(weightInKg, WEIGHT_LIMITS.ABSOLUTE_MAX)
    THEN Fail([result EXCEPT !.normalizedValue = weightInKg],
              Msg("Weight exceeds pediatric range (maximum 100kg)"))
    ELSE WeightLow(
            WeightPrecision(
                WeightBand([result EXCEPT !.normalizedValue = weightInKg],
                           weightInKg, ageInMonths),
                weightNum, weightInKg),
            weightInKg)

\* The absolute limits, on the weight in kilograms.
WeightRange(result, weightNum, weightInKg, ageInMonths) ==
    IF Less(weightInKg, WEIGHT_LIMITS.ABSOLUTE_MIN)
    THEN Fail([result EXCEPT !.normalizedValue = weightInKg],
              Msg("Weight too low for safe calculations (minimum 0.5kg)"))
    ELSE IF Greater(weightInKg, WEIGHT_LIMITS.ABSOLUTE_MAX)
    THEN Fail([result EXCEPT !.normalizedValue = weightInKg],
              Msg("Weight exceeds pediatric range (maximum 100kg)"))
    ELSE WeightLow(
            WeightPrecision(
                WeightBand([result EXCEPT !.normalizedValue = weightInKg],
                           weightInKg, ageInMonths),
                weightNum, weightInKg),
            weightInKg)

\* The checks on the parsed number.
WeightNumber(result, weightNum, weightUnit, ageInMonths) ==
    IF isNaN(weightNum)
    THEN Fail(result, Msg("Weight must be a valid number"))
    ELSE IF LessEq(weightNum, Num(0))
    THEN Fail(result, Msg("Weight must be greater than zero"))
    ELSE WeightRange(result, weightNum, convertWeightToKg(weightNum, weightUnit),
                     ageInMonths)

validateWeight(weight, weightUnit, ageInMonths) ==
    IF weight = <<>> \/ trim(weight) = <<>>
    THEN Fail(NewValidationResult(undefined), Msg("Weight is required"))
    ELSE WeightNumber(NewValidationResult(undefined), parseFloat(trim(weight)),
                      weightUnit, ageInMonths)

(***************************************************************************)
(* validateDosage                                                          *)
(***************************************************************************)
\* The very-low-dose warning and the successful return.
DoseLow(result, dosePerKg) ==
    IF Less(dosePerKg, DOSAGE_LIMITS.MIN_DOSE)
    THEN [result EXCEPT
            !.warnings = @ \o <<Msg("Very low dose calculated. Verify medication and calculation.")>>,
            !.safetyLevel = "caution",
            !.isValid = TRUE]
    ELSE [result EXCEPT !.isValid = TRUE]

\* DoseMaximum pushing the warning and leaving the safety level as it is.
DoseMaximum_WarningOnly(result, calculatedDose, medication, maxDoseValue) ==
    IF Truthy(maxDoseValue) /\ Greater(calculatedDose, maxDoseValue)
    THEN [result EXCEPT
            !.warnings = @ \o <<Message("Calculated dose exceeds maximum recommended dose",
                                        medication,
                                        <<toFixed(calculatedDose, 1), maxDoseValue>>)>>]
    ELSE result

\* The check against the medication-specific maximum dose.
DoseMaximum(result, calculatedDose, medication, maxDoseValue) ==
    IF Truthy(maxDoseValue) /\ Greater(calculatedDose, maxDoseValue)
    THEN [result EXCEPT
            !.warnings = @ \o <<Message("Calculated dose exceeds maximum recommended dose",
                                        medication,
                                        <<toFixed(calculatedDose, 1), maxDoseValue>>)>>,
            !.safetyLevel = "caution"]
    ELSE result

\* DoseBand with >= in place of >: the thresholds fall in the upper band.
DoseBand_Inclusive(result, dosePerKg) ==
    IF GreaterEq(dosePerKg, DOSAGE_LIMITS.DANGER_THRESHOLD)
    THEN [result EXCEPT
            !.warnings = @ \o <<Message("High dose calculated. Verify calculation and consider specialist consultation.",
                                        "", <<toFixed(dosePerKg, 2)>>)>>,
            !.safetyLevel = "danger"]
    ELSE IF GreaterEq(dosePerKg, DOSAGE_LIMITS.TYPICAL_MAX)
    THEN [result EXCEPT
            !.warnings = @ \o <<Message("Dose above typical range. Double-check calculation.",
                                        "", <<toFixed(dosePerKg, 2)>>)>>,
            !.safetyLevel = "caution"]
    ELSE result

\* The danger and typical-maximum thresholds on the dose per kg.
DoseBand(result, dosePerKg) ==
    IF Greater(dosePerKg, DOSAGE_LIMITS.DANGER_THRESHOLD)
    THEN [result EXCEPT
            !.warnings = @ \o <<Message("High dose calculated. Verify calculation and consider specialist consultation.",
                                        "", <<toFixed(dosePerKg, 2)>>)>>,
            !.safetyLevel = "danger"]
    ELSE IF Greater(dosePerKg, DOSAGE_LIMITS.TYPICAL_MAX)
    THEN [result EXCEPT
            !.warnings = @ \o <<Message("Dose above typical range. Double-check calculation.",
                                        "", <<toFixed(dosePerKg, 2)>>)>>,
            !.safetyLevel = "caution"]
    ELSE result

\* DoseLimit without the return after the error is pushed.
DoseLimit_NoReturn(result, calculatedDose, dosePerKg, medication, maxDoseValue) ==
    DoseLow(DoseMaximum(DoseBand(IF Greater(dosePerKg, DOSAGE_LIMITS.MAX_DOSE)
                                 THEN Fail(result, Msg("Calculated dose exceeds maximum safe limit (100 mg/kg)"))
                                 ELSE result,
                                 dosePerKg),
                        calculatedDose, medication, maxDoseValue),
            dosePerKg)

\* The absolute limit on the dose per kg.
DoseLimit(result, calculatedDose, dosePerKg, medication, maxDoseValue) ==
    IF Greater(dosePerKg, DOSAGE_LIMITS.MAX_DOSE)
    THEN Fail(result, Msg("Calculated dose exceeds maximum safe limit (100 mg/kg)"))
    ELSE DoseLow(DoseMaximum(DoseBand(result, dosePerKg),
                             calculatedDose, medication, maxDoseValue),
                 dosePerKg)

validateDosage(calculatedDose, weightInKg, medication, maxDoseValue) ==
    IF isNaN(calculatedDose) \/ ~isFinite(calculatedDose)
    THEN Fail(NewValidationResult(calculatedDose),
              Msg("Invalid dosage calculation result"))
    ELSE IF LessEq(calculatedDose, Num(0))
    THEN Fail(NewValidationResult(calculatedDose),
              Msg("Calculated dosage must be greater than zero"))
    ELSE DoseLimit(NewValidationResult(calculatedDose), calculatedDose,
                   Over(calculatedDose, weightInKg), medication, maxDoseValue)

(***************************************************************************)
(* validatePatientData                                                     *)
(***************************************************************************)
\* OverallSafetyLevel taking the weight validation's level alone.
OverallSafetyLevel_WeightOnly(ageValidation, weightValidation) ==
    weightValidation.safetyLevel

\* The overall safety level of two successful validations.
OverallSafetyLevel(ageValidation, weightValidation) ==
    IF ageValidation.safetyLevel = "danger" \/ weightValidation.safetyLevel = "danger"
    THEN "danger"
    ELSE IF ageValidation.safetyLevel = "caution" \/ weightValidation.safetyLevel = "caution"
    THEN "caution"
    ELSE "safe"

\* From the weight validation to the return.
PatientWeight(result, ageValidation, weightValidation) ==
    IF ~weightValidation.isValid
    THEN [result EXCEPT
            !.errors = @ \o weightValidation.errors,
            !.warnings = @ \o weightValidation.warnings,
            !.safetyLevel = weightValidation.safetyLevel]
    ELSE [result EXCEPT
            !.errors = @ \o weightValidation.errors,
            !.warnings = @ \o weightValidation.warnings,
            !.safetyLevel = OverallSafetyLevel(ageValidation, weightValidation),
            !.isValid = ageValidation.isValid /\ weightValidation.isValid]

\* PatientAge without the early return on an invalid age.
PatientAge_NoEarlyReturn(result, ageValidation, weight, weightUnit) ==
    PatientWeight(
        [result EXCEPT
            !.errors = @ \o ageValidation.errors,
            !.warnings = @ \o ageValidation.warnings],
        ageValidation,
        validateWeight(weight, weightUnit, ageValidation.normalizedValue))

\* From the age validation on.
PatientAge(result, ageValidation, weight, weightUnit) ==
    IF ~ageValidation.isValid
    THEN [result EXCEPT
            !.errors = @ \o ageValidation.errors,
            !.warnings = @ \o ageValidation.warnings,
            !.safetyLevel = ageValidation.safetyLevel]
    ELSE PatientWeight(
            [result EXCEPT
                !.errors = @ \o ageValidation.errors,
                !.warnings = @ \o ageValidation.warnings],
            ageValidation,
            validateWeight(weight, weightUnit, ageValidation.normalizedValue))

validatePatientData(age, ageUnit, weight, weightUnit) ==
    PatientAge(NewValidationResult(undefined), validateAge(age, ageUnit),
               weight, weightUnit)

(***************************************************************************)
(* calculateSafeDosage                                                     *)
(***************************************************************************)
null == [null |-> TRUE]

PatientData(age, ageUnit, weight, weightUnit) ==
    [age |-> age, ageUnit |-> ageUnit, weight |-> weight, weightUnit |-> weightUnit]

\* InputError without the check of dosePerKg.
InputError_RateUnchecked(patientData, dosePerKg) ==
    IF patientData = null
    THEN <<Msg("Patient data is required for dosage calculation")>>
    ELSE <<>>

\* The throw statements of the input checks: the error thrown, if any.
InputError(patientData, dosePerKg) ==
    IF patientData = null
    THEN <<Msg("Patient data is required for dosage calculation")>>
    ELSE IF ~Truthy(dosePerKg) \/ LessEq(dosePerKg, Num(0)) \/ ~isFinite(dosePerKg)
    THEN <<Message("Invalid dose per kg value", "", <<dosePerKg>>)>>
    ELSE <<>>

UnknownMedication ==
    <<"u", "n", "k", "n", "o", "w", "n", " ", "m", "e", "d", "i", "c", "a", "t", "i", "o", "n">>

MedicationName(medicationName) ==
    IF medicationName = <<>> \/ Len(trim(medicationName)) = 0
    THEN UnknownMedication
    ELSE medicationName

\* The object built by the catch block.
CatchResult(error) ==
    [result |-> Num(0),
     validation |->
        [isValid |-> FALSE, errors |-> <<error>>,
         warnings |-> <<Msg("Calculation failed - please verify all inputs")>>,
         normalizedValue |-> undefined, safetyLevel |-> "danger"],
     inputValidation |->
        [isValid |-> FALSE, errors |-> <<Msg("Input validation failed")>>,
         warnings |-> <<>>, normalizedValue |-> undefined, safetyLevel |-> "danger"],
     isRecommended |-> FALSE,
     warnings |-> <<Msg("Calculation failed due to an error"),
                    Msg("Please check patient data and medication selection"),
                    error>>]

\* The result object as first built from the input validation.
NewCalculation(inputValidation) ==
    [result |-> Num(0), validation |-> inputValidation,
     inputValidation |-> inputValidation, isRecommended |-> FALSE, warnings |-> <<>>]

\* The early return replaced by the generic failure object.
InvalidInputResult_Generic(inputValidation) ==
    CatchResult(Msg("Cannot calculate dosage due to invalid patient data"))

\* The early return on invalid patient data.
InvalidInputResult(inputValidation) ==
    [NewCalculation(inputValidation) EXCEPT
        !.warnings = @ \o <<Msg("Cannot calculate dosage due to invalid patient data")>>]

WeightInKg(patientData) ==
    convertWeightToKg(parseFloat(patientData.weight), patientData.weightUnit)

\* CalculatedDose taking the rate as the dose, whatever the weight is.
CalculatedDose_Flat(patientData, dosePerKg) == dosePerKg

CalculatedDose(patientData, dosePerKg) == Times(dosePerKg, WeightInKg(patientData))

\* ArithmeticError without the check against 10,000 mg.
ArithmeticError_NoCeiling(weightValue, weightInKg, calculatedDose) ==
    IF isNaN(weightValue) \/ LessEq(weightValue, Num(0))
    THEN <<Msg("Invalid weight value")>>
    ELSE IF ~isFinite(weightInKg) \/ LessEq(weightInKg, Num(0))
    THEN <<Msg("Weight conversion resulted in invalid value")>>
    ELSE IF ~isFinite(calculatedDose) \/ LessEq(calculatedDose, Num(0))
    THEN <<Msg("Dosage calculation resulted in invalid value")>>
    ELSE <<>>

\* The throw statements of the arithmetic: the error thrown, if any.
ArithmeticError(weightValue, weightInKg, calculatedDose) ==
    IF isNaN(weightValue) \/ LessEq(weightValue, Num(0))
    THEN <<Msg("Invalid weight value")>>
    ELSE IF ~isFinite(weightInKg) \/ LessEq(weightInKg, Num(0))
    THEN <<Msg("Weight conversion resulted in invalid value")>>
    ELSE IF ~isFinite(calculatedDose) \/ LessEq(calculatedDose, Num(0))
    THEN <<Msg("Dosage calculation resulted in invalid value")>>
    ELSE IF Greater(calculatedDose, Num(10000))
    THEN <<Message("Calculated dose is unreasonably high. Please verify inputs.",
                   "", <<toFixed(calculatedDose, 1)>>)>>
    ELSE <<>>

HighRiskWarning(dosageValidation) ==
    IF dosageValidation.safetyLevel = "danger"
    THEN <<Msg("High-risk dosage calculated. Double-check all inputs and consult medical references.")>>
    ELSE <<>>

\* DosageResult recommending every valid dose, whatever its safety level.
DosageResult_ValidRecommended(inputValidation, calculatedDose, dosageValidation) ==
    [NewCalculation(inputValidation) EXCEPT
        !.result = calculatedDose,
        !.validation = dosageValidation,
        !.isRecommended = dosageValidation.isValid,
        !.warnings =
            inputValidation.warnings \o dosageValidation.warnings
                \o HighRiskWarning(dosageValidation)]

\* The result built from the calculated dose and its validation.
DosageResult(inputValidation, calculatedDose, dosageValidation) ==
    [NewCalculation(inputValidation) EXCEPT
        !.result = calculatedDose,
        !.validation = dosageValidation,
        !.isRecommended =
            dosageValidation.isValid /\ dosageValidation.safetyLevel = "safe",
        !.warnings =
            inputValidation.warnings \o dosageValidation.warnings
                \o HighRiskWarning(dosageValidation)]

\* The arithmetic's outcome: the catch block's object if it threw, else
\* the result with the validated dose.
DoseOutcome(error, inputValidation, calculatedDose, weightInKg, medication, maxDoseValue) ==
    IF error # <<>>
    THEN CatchResult(error[1])
    ELSE DosageResult(inputValidation, calculatedDose,
                      validateDosage(calculatedDose, weightInKg, medication,
                                     maxDoseValue))

\* The dose arithmetic and the validation of the dose, for valid patient data.
Computation(patientData, dosePerKg, maxDoseValue, medicationName, inputValidation) ==
    DoseOutcome(ArithmeticError(parseFloat(patientData.weight),
                                WeightInKg(patientData),
                                CalculatedDose(patientData, dosePerKg)),
                inputValidation,
                CalculatedDose(patientData, dosePerKg),
                WeightInKg(patientData),
                MedicationName(medicationName),
                maxDoseValue)

\* The outcome of the input checks and of validatePatientData.
InputOutcome(error, inputValidation, patientData, dosePerKg, maxDoseValue, medicationName) ==
    IF error # <<>> THEN CatchResult(error[1])
    ELSE IF ~inputValidation.isValid THEN InvalidInputResult(inputValidation)
    ELSE Computation(patientData, dosePerKg, maxDoseValue, medicationName,
                     inputValidation)

calculateSafeDosage(patientData, dosePerKg, maxDoseValue, medicationName) ==
    InputOutcome(InputError(patientData, dosePerKg),
                 validatePatientData(patientData.age, patientData.ageUnit,
                                     patientData.weight, patientData.weightUnit),
                 patientData, dosePerKg, maxDoseValue, medicationName)

(***************************************************************************)
(* calculateDoseRange                                                      *)
(***************************************************************************)
\* The object built by the catch block.
RangeFailure ==
    [minDose |-> Num(0), maxDose |-> Num(0), recommendedDose |-> Num(0),
     safetyLevel |-> "danger"]

\* RangeInputError without the check that the minimum is not above the
\* maximum.
RangeInputError_Unordered(weightKg, minDosePerKg, maxDosePerKg) ==
    IF ~isFinite(weightKg) \/ LessEq(weightKg, Num(0))
    THEN <<Message("Invalid weight", "", <<weightKg>>)>>
    ELSE IF ~isFinite(minDosePerKg) \/ Less(minDosePerKg, Num(0))
    THEN <<Message("Invalid minimum dose per kg", "", <<minDosePerKg>>)>>
    ELSE IF ~isFinite(maxDosePerKg) \/ Less(maxDosePerKg, Num(0))
    THEN <<Message("Invalid maximum dose per kg", "", <<maxDosePerKg>>)>>
    ELSE <<>>

\* The throw statements of the input checks: the error thrown, if any.
RangeInputError(weightKg, minDosePerKg, maxDosePerKg) ==
    IF ~isFinite(weightKg) \/ LessEq(weightKg, Num(0))
    THEN <<Message("Invalid weight", "", <<weightKg>>)>>
    ELSE IF ~isFinite(minDosePerKg) \/ Less(minDosePerKg, Num(0))
    THEN <<Message("Invalid minimum dose per kg", "", <<minDosePerKg>>)>>
    ELSE IF ~isFinite(maxDosePerKg) \/ Less(maxDosePerKg, Num(0))
    THEN <<Message("Invalid maximum dose per kg", "", <<maxDosePerKg>>)>>
    ELSE IF Greater(minDosePerKg, maxDosePerKg)
    THEN <<Message("Minimum dose cannot be greater than maximum dose", "",
                   <<minDosePerKg, maxDosePerKg>>)>>
    ELSE <<>>

\* IgnoreInvalidMaximum keeping an invalid maximum as it was passed.
IgnoreInvalidMaximum_Kept(absoluteMax) == absoluteMax

\* An invalid absolute maximum is logged and replaced by undefined.
IgnoreInvalidMaximum(absoluteMax) ==
    IF absoluteMax # undefined /\ (~isFinite(absoluteMax) \/ LessEq(absoluteMax, Num(0)))
    THEN undefined
    ELSE absoluteMax

\* RangeSafetyLevel without the caution band below the maximum.
RangeSafetyLevel_NoCaution(recommendedDose, absoluteMax) ==
    IF Truthy(absoluteMax)
    THEN IF Greater(recommendedDose, absoluteMax) THEN "danger" ELSE "safe"
    ELSE "safe"

\* The safety level of the recommended dose against the absolute maximum.
RangeSafetyLevel(recommendedDose, absoluteMax) ==
    IF Truthy(absoluteMax)
    THEN IF Greater(recommendedDose, absoluteMax) THEN "danger"
         ELSE IF Greater(recommendedDose, Times(absoluteMax, Fin(8, 10))) THEN "caution"
         ELSE "safe"
    ELSE "safe"

\* Math.round(x * 100) / 100
RoundToCents(x) == Over(MathRound(Times(x, Num(100))), Num(100))

\* RangeDoses recommending the maximum dose in place of the midpoint.
RangeDoses_Maximum(minDose, maxDose) ==
    [minDose |-> minDose, maxDose |-> maxDose, recommendedDose |-> maxDose]

\* The three doses, before rounding.
RangeDoses(minDose, maxDose) ==
    [minDose |-> minDose, maxDose |-> maxDose,
     recommendedDose |-> Over(Plus(minDose, maxDose), Num(2))]

\* The check of the calculated doses, the safety level and the return.
RangeResult(doses, absoluteMax) ==
    IF ~isFinite(doses.minDose) \/ ~isFinite(doses.maxDose)
          \/ ~isFinite(doses.recommendedDose)
    THEN RangeFailure
    ELSE [minDose |-> RoundToCents(doses.minDose),
          maxDose |-> RoundToCents(doses.maxDose),
          recommendedDose |-> RoundToCents(doses.recommendedDose),
          safetyLevel |-> RangeSafetyLevel(doses.recommendedDose, absoluteMax)]

\* From the input checks on.
RangeOutcome(inputError, weightKg, minDosePerKg, maxDosePerKg, absoluteMax) ==
    IF inputError # <<>>
    THEN RangeFailure
    ELSE RangeResult(RangeDoses(Times(minDosePerKg, weightKg),
                                Times(maxDosePerKg, weightKg)),
                     IgnoreInvalidMaximum(absoluteMax))

calculateDoseRange(weightKg, minDosePerKg, maxDosePerKg, absoluteMax) ==
    RangeOutcome(RangeInputError(weightKg, minDosePerKg, maxDosePerKg),
                 weightKg, minDosePerKg, maxDosePerKg, absoluteMax)

(***************************************************************************)
(* App: calculateDosage.  A medication is a record with the fields of the  *)
(* Medication type that the handler reads.                                 *)
(***************************************************************************)
Medication(name, min_dose, max_dose, value, dosage_forms, frequency) ==
    [name |-> name, dosage |-> [min_dose |-> min_dose, max_dose |-> max_dose],
     max_dose |-> [value |-> value], dosage_forms |-> dosage_forms,
     frequency |-> frequency]

\* String.prototype.includes
Includes(s, p) ==
    \E i \in 1..(Len(s) - Len(p) + 1) : SubSeq(s, i, i + Len(p) - 1) = p

\* p occurs in s at position i.
OccursAt(s, i, p) ==
    i >= 1 /\ i + Len(p) - 1 <= Len(s) /\ SubSeq(s, i, i + Len(p) - 1) = p

DigitAt(s, i) == i >= 1 /\ i <= Len(s) /\ IsDigit(s[i])

\* The position after the digits that start at i.
RECURSIVE AfterDigits(_, _)
AfterDigits(s, i) == IF DigitAt(s, i) THEN AfterDigits(s, i + 1) ELSE i

\* The position after the white space that starts at i.
RECURSIVE AfterSpaces(_, _)
AfterSpaces(s, i) ==
    IF i <= Len(s) /\ IsSpace(s[i]) THEN AfterSpaces(s, i + 1) ELSE i

\* (\d+)\s*unit matches at position i.
QuantityAt(s, i, unit) ==
    DigitAt(s, i) /\ OccursAt(s, AfterSpaces(s, AfterDigits(s, i)), unit)

\* The position after the match of (\d+)\s*unit at position i.
AfterQuantity(s, i, unit) == AfterSpaces(s, AfterDigits(s, i)) + Len(unit)

Milligram == <<"m", "g">>
Millilitre == <<"m", "L">>

\* /(\d+)\s*mg.*?(\d+)\s*mL/ matches at position i.
ConcentrationAt(s, i) ==
    /\ QuantityAt(s, i, Milligram)
    /\ \E j \in AfterQuantity(s, i, Milligram)..Len(s) : QuantityAt(s, j, Millilitre)

\* The first position at which the expression matches (0: none).
FirstConcentration(s) ==
    IF \E k \in 1..Len(s) : ConcentrationAt(s, k)
    THEN CHOOSE k \in 1..Len(s) :
             ConcentrationAt(s, k) /\ \A l \in 1..(k - 1) : ~ConcentrationAt(s, l)
    ELSE 0

\* .*? is lazy: the first position from i on at which (\d+)\s*mL matches.
FirstMillilitre(s, i) ==
    CHOOSE j \in i..Len(s) :
        QuantityAt(s, j, Millilitre) /\ \A l \in i..(j - 1) : ~QuantityAt(s, l, Millilitre)

\* The text of s from position i on.
From(s, i) == SubSeq(s, i, Len(s))

\* concentration.match(/(\d+)\s*mg.*?(\d+)\s*mL/): the two groups as
\* parseFloat reads them, or null.
ConcentrationMatch(s) ==
    IF FirstConcentration(s) = 0 THEN null
    ELSE [mgPer |-> Num(DigitsValue(DigitPrefix(From(s, FirstConcentration(s))), 0)),
          mlPer |-> Num(DigitsValue(DigitPrefix(
                        From(s, FirstMillilitre(s,
                                    AfterQuantity(s, FirstConcentration(s), Milligram)))), 0))]

StandardDose ==
    <<"S", "t", "a", "n", "d", "a", "r", "d", " ", "d", "o", "s", "e">>

\* The weight in kilograms.
AppWeightInKg(patientData) ==
    IF patientData.weightUnit = "lbs"
    THEN Times(parseFloat(patientData.weight), Fin(453592, 1000000))
    ELSE parseFloat(patientData.weight)

AppMinDose(med, weightInKg) ==
    IF Truthy(med.dosage.min_dose) THEN Times(med.dosage.min_dose, weightInKg)
    ELSE Num(0)

AppMaxDose(med, weightInKg, minDose) ==
    IF Truthy(med.dosage.max_dose) THEN Times(med.dosage.max_dose, weightInKg)
    ELSE minDose

AppRecommendedDose(minDose, maxDose) ==
    IF Greater(maxDose, minDose) THEN Over(Plus(minDose, maxDose), Num(2))
    ELSE minDose

AppMaxDoseValue(med) ==
    IF Truthy(med.max_dose.value) THEN med.max_dose.value ELSE Num(1000)

AppSafetyLevel(recommendedDose, maxDoseValue) ==
    IF Greater(recommendedDose, Times(maxDoseValue, Fin(8, 10)))
    THEN IF Greater(recommendedDose, maxDoseValue) THEN "danger" ELSE "caution"
    ELSE "safe"

AppConcentration(med) ==
    IF Len(med.dosage_forms) > 0 THEN med.dosage_forms[1] ELSE StandardDose

\* The volume shown: the number before " mL", or undefined for the empty
\* string.
VolumeOf(match, recommendedDose) ==
    IF match = null THEN undefined
    ELSE toFixed(Times(Over(recommendedDose, match.mgPer), match.mlPer), 1)

AppVolume(concentration, recommendedDose) ==
    IF Includes(concentration, Millilitre) /\ Includes(concentration, Milligram)
    THEN VolumeOf(ConcentrationMatch(concentration), recommendedDose)
    ELSE undefined

\* The object passed to setCalculationResult.
CalculationResult(med, minDose, maxDose, recommendedDose) ==
    [dose |-> toFixed(recommendedDose, 1),
     minDose |-> toFixed(minDose, 1),
     maxDose |-> toFixed(maxDose, 1),
     safetyLevel |-> AppSafetyLevel(recommendedDose, AppMaxDoseValue(med)),
     isOverMax |-> Greater(recommendedDose, AppMaxDoseValue(med)),
     concentration |-> AppConcentration(med),
     frequency |-> med.frequency,
     medication |-> med.name,
     volume |-> AppVolume(AppConcentration(med), recommendedDose)]

DosesResult(med, minDose, maxDose) ==
    CalculationResult(med, minDose, maxDose, AppRecommendedDose(minDose, maxDose))

WeightResult(med, weightInKg) ==
    DosesResult(med, AppMinDose(med, weightInKg),
                AppMaxDose(med, weightInKg, AppMinDose(med, weightInKg)))

\* The calculation result of a medication for the patient data.
CalculationOf(med, patientData) == WeightResult(med, AppWeightInKg(patientData))

(***************************************************************************)
(* The adapter: a row of the reference data converted to a medication.     *)
(***************************************************************************)
UpperCaseLetters ==
    <<"A", "B", "C", "D", "E", "F", "G", "H", "I", "J", "K", "L", "M",
      "N", "O", "P", "Q", "R", "S", "T", "U", "V", "W", "X", "Y", "Z">>
LowerCaseLetters ==
    <<"a", "b", "c", "d", "e", "f", "g", "h", "i", "j", "k", "l", "m",
      "n", "o", "p", "q", "r", "s", "t", "u", "v", "w", "x", "y", "z">>

LowerOf(c) ==
    IF \E i \in 1..26 : UpperCaseLetters[i] = c
    THEN LowerCaseLetters[CHOOSE i \in 1..26 : UpperCaseLetters[i] = c]
    ELSE c

UpperOf(c) ==
    IF \E i \in 1..26 : LowerCaseLetters[i] = c
    THEN UpperCaseLetters[CHOOSE i \in 1..26 : LowerCaseLetters[i] = c]
    ELSE c

\* String.prototype.toLowerCase
toLowerCase(s) == [i \in 1..Len(s) |-> LowerOf(s[i])]

\* The position after \d+(?:\.\d+)? at position i.
NumberEnd(s, i) ==
    IF /\ AfterDigits(s, i) < Len(s)
       /\ s[AfterDigits(s, i)] = "."
       /\ DigitAt(s, AfterDigits(s, i) + 1)
    THEN AfterDigits(s, AfterDigits(s, i) + 1)
    ELSE AfterDigits(s, i)

Microgram == <<"m", "c", "g">>
Gram == <<"g">>
PerKilogram == <<"/", "k", "g">>

\* (mcg|mg|g) at position i, whatever the case: the unit in lower case, or
\* the empty string.
UnitAt(s, i) ==
    IF OccursAt(toLowerCase(s), i, Microgram) THEN Microgram
    ELSE IF OccursAt(toLowerCase(s), i, Milligram) THEN Milligram
    ELSE IF OccursAt(toLowerCase(s), i, Gram) THEN Gram
    ELSE <<>>

\* The value in milligrams.
InMilligrams(value, unit) ==
    IF unit = Microgram THEN Over(value, Num(1000))
    ELSE IF unit = Gram THEN Times(value, Num(1000))
    ELSE value

\* (\d+(?:\.\d+)?)\s*-?\s*(\d+(?:\.\d+)?)?\s*(mcg|mg|g)\/kg at position i:
\* every quantifier is greedy and none has to give anything back for the
\* rest to match, so the groups are the longest ones.
AfterDash(s, i) == IF i <= Len(s) /\ s[i] = "-" THEN i + 1 ELSE i

\* Where the second group starts.
SecondNumberAt(s, i) ==
    AfterSpaces(s, AfterDash(s, AfterSpaces(s, NumberEnd(s, i))))

HasSecondNumber(s, i) == DigitAt(s, SecondNumberAt(s, i))

\* Where the unit starts.
DoseUnitAt(s, i) ==
    IF HasSecondNumber(s, i)
    THEN AfterSpaces(s, NumberEnd(s, SecondNumberAt(s, i)))
    ELSE SecondNumberAt(s, i)

DoseMatchAt(s, i) ==
    /\ DigitAt(s, i)
    /\ UnitAt(s, DoseUnitAt(s, i)) # <<>>
    /\ OccursAt(toLowerCase(s),
                DoseUnitAt(s, i) + Len(UnitAt(s, DoseUnitAt(s, i))), PerKilogram)

\* doseString.match(...): the position of the first match (0: none).
doseMatch(s) ==
    IF \E i \in 1..Len(s) : DoseMatchAt(s, i)
    THEN CHOOSE i \in 1..Len(s) :
             DoseMatchAt(s, i) /\ \A l \in 1..(i - 1) : ~DoseMatchAt(s, l)
    ELSE 0

\* The dose range of a match at position i.
MatchedDose(s, i) ==
    [min_dose |-> InMilligrams(parseFloat(SubSeq(s, i, NumberEnd(s, i) - 1)),
                               UnitAt(s, DoseUnitAt(s, i))),
     max_dose |->
        InMilligrams(
            IF HasSecondNumber(s, i)
            THEN parseFloat(SubSeq(s, SecondNumberAt(s, i),
                                   NumberEnd(s, SecondNumberAt(s, i)) - 1))
            ELSE parseFloat(SubSeq(s, i, NumberEnd(s, i) - 1)),
            UnitAt(s, DoseUnitAt(s, i)))]

\* The min_dose and max_dose of the dosage.  A string that the single-dose
\* expression of the else branch matches is matched by the first expression
\* as well, so that branch assigns nothing.
parsePediatricDose(doseString) ==
    IF doseMatch(doseString) = 0
    THEN [min_dose |-> undefined, max_dose |-> undefined]
    ELSE MatchedDose(doseString, doseMatch(doseString))

\* (\d+(?:\.\d+)?)\s*(mcg|mg|g)(?:\/day|\/dose)? at position i.
MaxDoseUnitAt(s, i) == AfterSpaces(s, NumberEnd(s, i))

MaxDoseMatchAt(s, i) == DigitAt(s, i) /\ UnitAt(s, MaxDoseUnitAt(s, i)) # <<>>

maxDoseMatch(s) ==
    IF \E i \in 1..Len(s) : MaxDoseMatchAt(s, i)
    THEN CHOOSE i \in 1..Len(s) :
             MaxDoseMatchAt(s, i) /\ \A l \in 1..(i - 1) : ~MaxDoseMatchAt(s, l)
    ELSE 0

\* The value of the max dose.
parseMaxDose(maxDoseString) ==
    IF maxDoseMatch(maxDoseString) = 0 THEN undefined
    ELSE InMilligrams(
             parseFloat(SubSeq(maxDoseString, maxDoseMatch(maxDoseString),
                               NumberEnd(maxDoseString, maxDoseMatch(maxDoseString)) - 1)),
             UnitAt(maxDoseString,
                    MaxDoseUnitAt(maxDoseString, maxDoseMatch(maxDoseString))))

Standard == <<"S", "t", "a", "n", "d", "a", "r", "d">>

\* Each abbreviation with its full form.
formMap ==
    <<<<<<"t", "a", "b">>,
       <<"T", "a", "b", "l", "e", "t">>>>,
     <<<<"t", "a", "b", "s">>,
       <<"T", "a", "b", "l", "e", "t">>>>,
     <<<<"c", "a", "p">>,
       <<"C", "a", "p", "s", "u", "l", "e">>>>,
     <<<<"c", "a", "p", "s">>,
       <<"C", "a", "p", "s", "u", "l", "e">>>>,
     <<<<"l", "i", "q">>,
       <<"L", "i", "q", "u", "i", "d">>>>,
     <<<<"s", "u", "s", "p">>,
       <<"S", "u", "s", "p", "e", "n", "s", "i", "o", "n">>>>,
     <<<<"s", "o", "l">>,
       <<"S", "o", "l", "u", "t", "i", "o", "n">>>>,
     <<<<"i", "n", "j">>,
       <<"I", "n", "j", "e", "c", "t", "i", "o", "n">>>>,
     <<<<"e", "l", "i", "x", "i", "r">>,
       <<"E", "l", "i", "x", "i", "r">>>>,
     <<<<"s", "y", "r">>,
       <<"S", "y", "r", "u", "p">>>>,
     <<<<"c", "r", "e", "a", "m">>,
       <<"C", "r", "e", "a", "m">>>>,
     <<<<"o", "i", "n", "t">>,
       <<"O", "i", "n", "t", "m", "e", "n", "t">>>>,
     <<<<"g", "e", "l">>,
       <<"G", "e", "l">>>>,
     <<<<"p", "o", "w", "d", "e", "r">>,
       <<"P", "o", "w", "d", "e", "r">>>>,
     <<<<"i", "v">>,
       <<"I", "V">>>>,
     <<<<"i", "m">>,
       <<"I", "M">>>>,
     <<<<"n", "e", "b", "u", "l", "i", "z", "e", "r">>,
       <<"N", "e", "b", "u", "l", "i", "z", "e", "r">>>>,
     <<<<"i", "n", "h", "a", "l", "e", "r">>,
       <<"I", "n", "h", "a", "l", "e", "r">>>>>>

\* formMap[form] || form.charAt(0).toUpperCase() + form.slice(1)
FullForm(form) ==
    IF \E i \in 1..Len(formMap) : formMap[i][1] = form
    THEN formMap[CHOOSE i \in 1..Len(formMap) : formMap[i][1] = form][2]
    ELSE <<UpperOf(Head(form))>> \o Tail(form)

IsSeparator(c) == IsSpace(c) \/ c = ","

\* split(/[\s,]+/), trim and filter(form => form.length > 0): the non-empty
\* stretches between the separators, from position i on, form being the
\* stretch read so far.
RECURSIVE SplitForms(_, _, _)
SplitForms(s, i, form) ==
    IF i > Len(s) THEN (IF form = <<>> THEN <<>> ELSE <<form>>)
    ELSE IF IsSeparator(s[i])
         THEN (IF form = <<>> THEN <<>> ELSE <<form>>) \o SplitForms(s, i + 1, <<>>)
         ELSE SplitForms(s, i + 1, Append(form, s[i]))

FullForms(forms) == [i \in 1..Len(forms) |-> FullForm(forms[i])]

parseDosageForms(dosageFormString) ==
    IF dosageFormString = <<>> THEN <<Standard>>
    ELSE IF SplitForms(toLowerCase(dosageFormString), 1, <<>>) = <<>>
         THEN <<Standard>>
         ELSE FullForms(SplitForms(toLowerCase(dosageFormString), 1, <<>>))

\* A row of the pediatric_drugs table: the columns that reach the
\* calculation.  The Frequency column is filled in in every row here, so
\* the frequency read from the dose text is not consulted.
PediatricDrug(Drug, Pediatric_Dose, Max_Dose, Dosage_Form, Frequency) ==
    [Drug |-> Drug, Pediatric_Dose |-> Pediatric_Dose, Max_Dose |-> Max_Dose,
     Dosage_Form |-> Dosage_Form, Frequency |-> Frequency]

convertPediatricDrugToMedication(drug) ==
    Medication(drug.Drug,
               parsePediatricDose(drug.Pediatric_Dose).min_dose,
               parsePediatricDose(drug.Pediatric_Dose).max_dose,
               parseMaxDose(drug.Max_Dose),
               parseDosageForms(drug.Dosage_Form),
               drug.Frequency)

convertPediatricDrugsToMedications(drugs) ==
    {convertPediatricDrugToMedication(drug) : drug \in drugs}

(***************************************************************************)
(* Error handling: classifyError, getUserFriendlyMessage,                  *)
(* safeAsyncOperation.  A thrown value is an Error with a message or a     *)
(* string.                                                                 *)
(***************************************************************************)
Thrown(kind, message) == [kind |-> kind, message |-> message]

NetworkError(message) ==
    \/ Includes(message, <<"f", "e", "t", "c", "h">>)
    \/ Includes(message, <<"n", "e", "t", "w", "o", "r", "k">>)
    \/ Includes(message, <<"c", "o", "n", "n", "e", "c", "t", "i", "o", "n">>)
    \/ Includes(message, <<"t", "i", "m", "e", "o", "u", "t">>)

DatabaseError(message) ==
    \/ Includes(message, <<"d", "a", "t", "a", "b", "a", "s", "e">>)
    \/ Includes(message, <<"s", "u", "p", "a", "b", "a", "s", "e">>)
    \/ Includes(message, <<"q", "u", "e", "r", "y">>)
    \/ Includes(message, <<"t", "a", "b", "l", "e">>)

MedicalCalculationError(message, context) ==
    \/ Includes(context, <<"c", "a", "l", "c", "u", "l", "a", "t", "i", "o", "n">>)
    \/ Includes(context, <<"d", "o", "s", "a", "g", "e">>)
    \/ Includes(context, <<"m", "e", "d", "i", "c", "a", "l">>)
    \/ Includes(message, <<"d", "o", "s", "e">>)
    \/ Includes(message, <<"c", "a", "l", "c", "u", "l", "a", "t", "i", "o", "n">>)

ValidationError(message, context) ==
    \/ Includes(message, <<"v", "a", "l", "i", "d", "a", "t", "i", "o", "n">>)
    \/ Includes(message, <<"i", "n", "v", "a", "l", "i", "d">>)
    \/ Includes(message, <<"r", "e", "q", "u", "i", "r", "e", "d">>)
    \/ Includes(context, <<"v", "a", "l", "i", "d", "a", "t", "i", "o", "n">>)

AuthenticationError(message) ==
    \/ Includes(message, <<"a", "u", "t", "h">>)
    \/ Includes(message, <<"u", "n", "a", "u", "t", "h", "o", "r", "i", "z", "e", "d">>)
    \/ Includes(message, <<"p", "e", "r", "m", "i", "s", "s", "i", "o", "n">>)

RateLimitError(message) ==
    \/ Includes(message, <<"r", "a", "t", "e", " ", "l", "i", "m", "i", "t">>)
    \/ Includes(message, <<"t", "o", "o", " ", "m", "a", "n", "y", " ", "r", "e", "q", "u", "e", "s", "t", "s">>)

\* The type classifyError gives to an Error with this message.
ErrorTypeOf(message, context) ==
    IF NetworkError(message) THEN "NETWORK"
    ELSE IF DatabaseError(message) THEN "DATABASE"
    ELSE IF MedicalCalculationError(message, context) THEN "MEDICAL_CALCULATION"
    ELSE IF ValidationError(message, context) THEN "VALIDATION"
    ELSE IF AuthenticationError(message) THEN "AUTHENTICATION"
    ELSE IF RateLimitError(message) THEN "RATE_LIMIT"
    ELSE "UNKNOWN"

SeverityOf(type) ==
    IF type \in {"NETWORK", "DATABASE", "AUTHENTICATION"} THEN "HIGH"
    ELSE IF type = "MEDICAL_CALCULATION" THEN "CRITICAL"
    ELSE "MEDIUM"

Classified(message, context, type) ==
    [message |-> message, context |-> context, type |-> type,
     severity |-> SeverityOf(type),
     isRetryable |-> type \in {"NETWORK", "DATABASE", "RATE_LIMIT"},
     requiresUserAction |-> type \notin {"NETWORK", "RATE_LIMIT"}]

classifyError(error, context) ==
    IF error.kind = "Error"
    THEN Classified(error.message, context, ErrorTypeOf(error.message, context))
    ELSE Classified(error.message, context, "UNKNOWN")

UnexpectedError ==
    <<"A", "n", " ", "u", "n", "e", "x", "p", "e", "c", "t", "e", "d", " ",
      "e", "r", "r", "o", "r", " ", "o", "c", "c", "u", "r", "r", "e", "d",
      ".", " ", "P", "l", "e", "a", "s", "e", " ", "t", "r", "y", " ", "a",
      "g", "a", "i", "n", ".">>

getUserFriendlyMessage(classifiedError) ==
    IF classifiedError.type = "NETWORK" THEN
        <<"N", "e", "t", "w", "o", "r", "k", " ", "c", "o", "n", "n", "e",
          "c", "t", "i", "o", "n", " ", "i", "s", "s", "u", "e", ".", " ",
          "P", "l", "e", "a", "s", "e", " ", "c", "h", "e", "c", "k", " ",
          "y", "o", "u", "r", " ", "i", "n", "t", "e", "r", "n", "e", "t",
          " ", "c", "o", "n", "n", "e", "c", "t", "i", "o", "n", " ", "a",
          "n", "d", " ", "t", "r", "y", " ", "a", "g", "a", "i", "n", ".">>
    ELSE IF classifiedError.type = "DATABASE" THEN
        <<"U", "n", "a", "b", "l", "e", " ", "t", "o", " ", "a", "c", "c",
          "e", "s", "s", " ", "m", "e", "d", "i", "c", "a", "t", "i", "o",
          "n", " ", "d", "a", "t", "a", "b", "a", "s", "e", ".", " ", "P",
          "l", "e", "a", "s", "e", " ", "t", "r", "y", " ", "a", "g", "a",
          "i", "n", " ", "i", "n", " ", "a", " ", "m", "o", "m", "e", "n",
          "t", ".">>
    ELSE IF classifiedError.type = "MEDICAL_CALCULATION" THEN
        <<"E", "r", "r", "o", "r", " ", "i", "n", " ", "m", "e", "d", "i",
          "c", "a", "l", " ", "c", "a", "l", "c", "u", "l", "a", "t", "i",
          "o", "n", ".", " ", "P", "l", "e", "a", "s", "e", " ", "v", "e",
          "r", "i", "f", "y", " ", "p", "a", "t", "i", "e", "n", "t", " ",
          "d", "a", "t", "a", " ", "a", "n", "d", " ", "m", "e", "d", "i",
          "c", "a", "t", "i", "o", "n", " ", "s", "e", "l", "e", "c", "t",
          "i", "o", "n", ".">>
    ELSE IF classifiedError.type = "VALIDATION" THEN
        <<"P", "l", "e", "a", "s", "e", " ", "c", "h", "e", "c", "k", " ",
          "y", "o", "u", "r", " ", "i", "n", "p", "u", "t", " ", "v", "a",
          "l", "u", "e", "s", " ", "a", "n", "d", " ", "c", "o", "r", "r",
          "e", "c", "t", " ", "a", "n", "y", " ", "e", "r", "r", "o", "r",
          "s", " ", "h", "i", "g", "h", "l", "i", "g", "h", "t", "e", "d",
          ".">>
    ELSE IF classifiedError.type = "AUTHENTICATION" THEN
        <<"A", "u", "t", "h", "e", "n", "t", "i", "c", "a", "t", "i", "o",
          "n", " ", "r", "e", "q", "u", "i", "r", "e", "d", ".", " ", "P",
          "l", "e", "a", "s", "e", " ", "s", "i", "g", "n", " ", "i", "n",
          " ", "t", "o", " ", "c", "o", "n", "t", "i", "n", "u", "e", ".">>
    ELSE IF classifiedError.type = "RATE_LIMIT" THEN
        <<"T", "o", "o", " ", "m", "a", "n", "y", " ", "r", "e", "q", "u",
          "e", "s", "t", "s", ".", " ", "P", "l", "e", "a", "s", "e", " ",
          "w", "a", "i", "t", " ", "a", " ", "m", "o", "m", "e", "n", "t",
          " ", "b", "e", "f", "o", "r", "e", " ", "t", "r", "y", "i", "n",
          "g", " ", "a", "g", "a", "i", "n", ".">>
    ELSE IF classifiedError.type = "SERVER" THEN
        <<"S", "e", "r", "v", "e", "r", " ", "e", "r", "r", "o", "r", " ",
          "o", "c", "c", "u", "r", "r", "e", "d", ".", " ", "P", "l", "e",
          "a", "s", "e", " ", "t", "r", "y", " ", "a", "g", "a", "i", "n",
          " ", "l", "a", "t", "e", "r", ".">>
    ELSE IF classifiedError.message # <<>> THEN classifiedError.message
    ELSE UnexpectedError

\* What the operation did: it returned data, or it threw.
Resolved(data) == [resolved |-> TRUE, data |-> data]
Rejected(error) == [resolved |-> FALSE, error |-> error]

SuccessResponse(data) == [success |-> TRUE, data |-> data]

\* ErrorResponse with shouldRetry not depending on the retries left.
ErrorResponse_AlwaysRetry(classifiedError, retries) ==
    [success |-> FALSE,
     error |-> classifiedError,
     userMessage |-> getUserFriendlyMessage(classifiedError),
     shouldRetry |-> classifiedError.isRetryable,
     retryAfter |->
        IF classifiedError.isRetryable
        THEN (IF classifiedError.type = "RATE_LIMIT" THEN Num(1000) ELSE Num(500))
        ELSE undefined]

ErrorResponse(classifiedError, retries) ==
    [success |-> FALSE,
     error |-> classifiedError,
     userMessage |-> getUserFriendlyMessage(classifiedError),
     shouldRetry |-> classifiedError.isRetryable /\ retries > 0,
     retryAfter |->
        IF classifiedError.isRetryable /\ retries > 0
        THEN (IF classifiedError.type = "RATE_LIMIT" THEN Num(1000) ELSE Num(500))
        ELSE undefined]

\* safeAsyncOperation(operation, context, retries), given what the operation
\* did.
safeAsyncOperation(outcome, context, retries) ==
    IF outcome.resolved THEN SuccessResponse(outcome.data)
    ELSE ErrorResponse(classifyError(outcome.error, context), retries)

(***************************************************************************)
(* fetchAllDrugs: the query and what the operation passed to               *)
(* retryAsyncOperation makes of its reply.                                 *)
(***************************************************************************)
\* The array of rows that the query returns.
Rows(drugs) == [rows |-> drugs]
QueryReply(data, error) == [data |-> data, error |-> error]
QueryError(message, code) == [message |-> message, code |-> code]

Unknown == <<"U", "n", "k", "n", "o", "w", "n">>

\* `Database error: ${error.message} (Code: ${error.code || 'Unknown'})`
DatabaseErrorMessage(error) ==
    <<"D", "a", "t", "a", "b", "a", "s", "e", " ", "e", "r", "r", "o", "r",
      ":", " ">>
        \o error.message
        \o <<" ", "(", "C", "o", "d", "e", ":", " ">>
        \o (IF error.code = <<>> THEN Unknown ELSE error.code)
        \o <<")">>

NoDataReturned ==
    <<"N", "o", " ", "d", "a", "t", "a", " ", "r", "e", "t", "u", "r", "n",
      "e", "d", " ", "f", "r", "o", "m", " ", "p", "e", "d", "i", "a", "t",
      "r", "i", "c", "_", "d", "r", "u", "g", "s", " ", "t", "a", "b", "l",
      "e">>

\* The operation of fetchAllDrugs, given the reply of the query.
QueryOutcome(reply) ==
    IF reply.error # null
    THEN Rejected(Thrown("Error", DatabaseErrorMessage(reply.error)))
    ELSE IF reply.data = null
         THEN Rejected(Thrown("Error", NoDataReturned))
         ELSE Resolved(reply.data)

FetchAllDrugsContext == <<"f", "e", "t", "c", "h", "A", "l", "l", "D", "r", "u", "g", "s">>

\* What fetchAllDrugs does with the response of retryAsyncOperation: it
\* returns the data or throws an Error with the user message.
FetchOutcome(result) ==
    IF result.success THEN Resolved(result.data)
    ELSE Rejected(Thrown("Error", result.userMessage))

(***************************************************************************)
(* Inputs                                                                  *)
(***************************************************************************)
\* The longest input string tried.
MaxInputLen == 8

AgeUnits == {"years", "months", "days"}
WeightUnits == {"kg", "lbs"}

AgeStrings ==
    {<<>>, <<" ">>, <<"a", "b", "c">>, <<"0">>, <<"-", "1">>,
     <<"0", ".", "5">>, <<"1">>, <<"1", ".", "0", "0", "5">>,
     <<" ", "5", " ">>, <<"1", "2">>, <<"1", "2", "k", "g">>, <<"1", "3">>,
     <<"1", "8">>, <<"1", "8", ".", "0", "1">>, <<"3", "0">>, <<"3", "1">>,
     <<"2", "1", "6">>, <<"2", "1", "7">>, <<"6", "5", "7", "0">>,
     <<"6", "5", "7", "1">>, <<"6", "5", "7", "6">>,
     <<"I", "n", "f", "i", "n", "i", "t", "y">>,
     <<" ", " ", "1", "8", ".", "0", "1", " ", " ">>}

AgeInputs == {s \in AgeStrings : Len(s) <= MaxInputLen}

WeightStrings ==
    {<<>>, <<" ">>, <<"a", "b", "c">>, <<"0">>, <<"-", "2">>,
     <<"0", ".", "4", "9">>, <<"0", ".", "5">>,
     <<"0", ".", "6", "0", "0", "1">>, <<"1", ".", "1">>, <<"1", ".", "2">>,
     <<"2">>, <<"2", ".", "4">>, <<"2", ".", "5">>, <<" ", "6", " ">>,
     <<"6", ".", "5">>, <<"1", "5">>, <<"1", "6">>, <<"3", "0">>,
     <<"1", "0", "0">>, <<"1", "0", "0", ".", "0", "1">>, <<"2", "2", "0">>,
     <<"2", "2", "1">>, <<"I", "n", "f", "i", "n", "i", "t", "y">>,
     <<"1", "0", "0", ".", "0", "1", " ", "k", "g">>}

WeightInputs == {s \in WeightStrings : Len(s) <= MaxInputLen}

\* The age context passed to validateWeight (undefined: not passed).
AgeContexts ==
    {undefined, NaN, Fin(1, 2), Num(1), Num(6), Num(12), Num(13), Num(60)}

\* The patients calculateSafeDosage is invoked with.
DosageAges ==
    {<<>>, <<"0", ".", "5">>, <<"5">>, <<"1", "9">>}

DosageWeights ==
    {<<"a", "b", "c">>, <<"0", ".", "4">>, <<"2">>, <<"1", "0">>,
     <<"3", "0">>, <<"6", "0">>, <<"8", "0">>, <<"1", "0", "0">>,
     <<"2", "2", "0">>, <<"2", "3", "0">>}

DosagePatients ==
    {null} \cup
    {PatientData(a, au, w, wu) :
        a \in DosageAges, au \in AgeUnits,
        w \in DosageWeights, wu \in WeightUnits}

DoseRates ==
    {NaN, Infinity, Num(0), Num(-5), Fin(1, 2000), Fin(1, 1000), Num(5), Num(10),
     Num(50), Fin(101, 2), Num(60), Num(75), Fin(151, 2), Num(80), Num(100),
     Fin(201, 2), Num(125), Num(200)}

MaxDoses == {undefined, Num(0), Num(400), Num(2000)}

Ibuprofen == <<"I", "b", "u", "p", "r", "o", "f", "e", "n">>
\* The default value of the medicationName parameter.
DefaultMedication == <<"m", "e", "d", "i", "c", "a", "t", "i", "o", "n">>
MedicationNames == {Ibuprofen, <<" ">>, DefaultMedication}

\* The arguments validateDosage is called with directly.
Doses ==
    {NaN, Infinity, Num(0), Num(-1), Fin(1, 100), Num(300), Num(500), Num(1500),
     Num(1800), Num(2250), Num(2400), Num(3000), Num(3030)}
Kilograms == {Num(0), Num(30), Num(100)}

\* The arguments calculateDoseRange is called with.
RangeWeights ==
    {undefined, NaN, Infinity, Num(-3), Num(0), Fin(1, 2), Num(1), Num(10),
     Fin(1503, 100), Num(20)}
MinRates ==
    {NaN, Infinity, Num(-1), Num(0), Fin(1, 8), Num(10), Num(20), Fin(25001, 250)}
MaxRates ==
    {NaN, NegInfinity, Num(-1), Num(0), Fin(1, 8), Num(10), Num(15), Num(20),
     Fin(25001, 250)}
AbsoluteMaxes ==
    {undefined, NaN, Infinity, Num(-5), Num(0), Num(100), Num(250), Num(300),
     Num(375), Num(400)}

\* The patients of two calls of calculateSafeDosage that differ in the
\* weight alone.
ComparedAges == {<<"5">>}
ComparedAgeUnits == {"years", "months"}
ComparedRates ==
    {NaN, Fin(1, 1000), Num(5), Num(10), Num(100), Num(125), Num(200)}
ComparedMaxDoses == {undefined, Num(400)}

\* The values typed into the App's age and weight inputs (type="number":
\* the empty string or a number).
AppAges == {<<>>, <<"5">>, <<"1", "9">>}
AppWeights == {<<>>, <<"2", "0">>, <<"5", "0", "0">>, <<"-", "2">>}

\* The rows of the pediatric_drugs table.
Drugs ==
    {PediatricDrug("Acetaminophen", <<"1", "0", "-", "1", "5", " ", "m", "g", "/", "k", "g">>, <<"6", "5", "0", " ", "m", "g">>,
                   <<"1", "6", "0", " ", "m", "g", "/", "5", " ", "m", "L">>, "q4-6h"),
     PediatricDrug("Ibuprofen", <<"5", " ", "-", " ", "1", "0", " ", "M", "G", "/", "k", "g", "/", "d", "o", "s", "e">>, <<"0", ".", "4", " ", "g", "/", "d", "a", "y">>,
                   <<"T", "a", "b", ",", " ", "s", "u", "s", "p">>, "q6-8h"),
     PediatricDrug("Amoxicillin", <<"5", "0", "-", "1", "0", "0", " ", "m", "g", "/", "k", "g", "/", "d", "a", "y">>, <<>>,
                   <<"2", "5", "0", "m", "g", "/", "5", "m", "L">>, "q12h"),
     PediatricDrug("Ondansetron", <<"1", "5", "0", " ", "m", "c", "g", "/", "k", "g">>, <<"8", " ", "m", "g">>,
                   <<>>, "q8h"),
     PediatricDrug("Saline", <<"a", "s", " ", "n", "e", "e", "d", "e", "d">>, <<>>, <<"n", "e", "b", "u", "l", "i", "z", "e", "r">>, "PRN")}

\* The values the operation passed to retryAsyncOperation throws.
ThrownValues ==
    {Thrown("Error", <<"F", "a", "i", "l", "e", "d", " ", "t", "o", " ", "f", "e", "t", "c", "h">>),
     Thrown("Error", <<"I", "n", "v", "a", "l", "i", "d", " ", "A", "P", "I", " ", "k", "e", "y">>),
     Thrown("Error", <<"t", "o", "o", " ", "m", "a", "n", "y", " ", "r", "e", "q", "u", "e", "s", "t", "s">>),
     Thrown("Error", <<"p", "e", "r", "m", "i", "s", "s", "i", "o", "n", " ",
                       "d", "e", "n", "i", "e", "d", " ", "f", "o", "r", " ",
                       "t", "a", "b", "l", "e", " ", "d", "r", "u", "g", "s">>),
     Thrown("string", <<"t", "i", "m", "e", "o", "u", "t">>)}

\* What one invocation of the operation does.
OperationOutcomes == {Resolved(Rows({}))} \cup {Rejected(e) : e \in ThrownValues}

Contexts == {FetchAllDrugsContext, <<"d", "o", "s", "a", "g", "e", " ", "c", "a", "l", "c", "u", "l", "a",
      "t", "i", "o", "n">>}

MaxRetriesLimit == 3
BaseDelays == {500, 1000}

\* The replies of the query of fetchAllDrugs.
QueryReplies ==
    {QueryReply(Rows(Drugs), null),
     QueryReply(null, null),
     QueryReply(null, QueryError(<<"J", "W", "T", " ", "e", "x", "p", "i", "r", "e", "d">>, <<"P", "G", "R", "S", "T", "3", "0", "1">>)),
     QueryReply(null, QueryError(<<"T", "y", "p", "e", "E", "r", "r", "o",
                                   "r", ":", " ", "F", "a", "i", "l", "e",
                                   "d", " ", "t", "o", " ", "f", "e", "t",
                                   "c", "h">>, <<>>)),
     QueryReply(null, QueryError(<<"p", "e", "r", "m", "i", "s", "s", "i",
                                   "o", "n", " ", "d", "e", "n", "i", "e",
                                   "d", " ", "f", "o", "r", " ", "t", "a",
                                   "b", "l", "e", " ", "p", "e", "d", "i",
                                   "a", "t", "r", "i", "c", "_", "d", "r",
                                   "u", "g", "s">>,
                                 <<"4", "2", "5", "0", "1">>))}

(***************************************************************************)
(* State: one call of one of the library's functions.                      *)
(*   op              the function called ("none" before the call)          *)
(*   pc              where the call is                                     *)
(*   patientData     age, ageUnit, weight, weightUnit as passed            *)
(*   ageInMonths     validateWeight's third argument                       *)
(*   dosePerKg, maxDoseValue, medicationName                               *)
(*                   calculateSafeDosage's and validateDosage's arguments  *)
(*   calculatedDose, weightInKg                                            *)
(*                   validateDosage's arguments; in calculateSafeDosage    *)
(*                   the locals of these names                             *)
(*   inputValidation calculateSafeDosage's local of this name              *)
(*   validation      the ValidationResult a validator returned             *)
(*   calc            the SafeMedicalCalculation calculateSafeDosage        *)
(*                   returned                                              *)
(*   weightKg, minDosePerKg, maxDosePerKg, absoluteMax                     *)
(*                   calculateDoseRange's arguments                        *)
(*   doseRange       the object calculateDoseRange returned                *)
(*   otherPatient, otherCalc                                               *)
(*                   the patient data and the result of a second call of   *)
(*                   calculateSafeDosage with the same other arguments     *)
(* and the state of the App component (patientData is shared: in the App   *)
(* it is the patient form):                                                *)
(*   currentScreen, selectedMedication, calculationResult, medications,    *)
(*   isLoading       the state variables of these names                    *)
(*   loadError       the state variable error                              *)
(* The search term, the category filter, the favourites and the progress   *)
(* bar only change what is displayed and are left out.                     *)
(* A call of retryAsyncOperation, by fetchAllDrugs or directly:            *)
(*   caller          "none", "retryAsyncOperation" or "fetchAllDrugs"      *)
(*   retryPc         "Idle", "Attempting" (at the head of the loop, or at  *)
(*                   the statement after it), "Waiting" (for the timer) or *)
(*                   "Returned"                                            *)
(*   context, maxRetries, baseDelay                                        *)
(*                   the arguments                                         *)
(*   attempt         the loop variable                                     *)
(*   invocations     what each invocation of the operation did, in order   *)
(*   delays          the delays waited for, in order                       *)
(*   response        the ApiResponse returned                              *)
(*   fetched         what fetchAllDrugs did: returned the rows, or threw   *)
(* The PatientInputScreen component, whose patient data is the variable    *)
(* patientData held by its parent:                                         *)
(*   formState       the state variable of this name: errors is the        *)
(*                   sequence of input errors, touched the set of fields   *)
(*                   marked true                                           *)
(*   patientValidation                                                     *)
(*                   the property of this name, set through                *)
(*                   onValidationChange                                    *)
(*   advanced        onNext has been called                                *)
(*   nextRejected    handleNext has refused the data since the component   *)
(*                   was constructed                                       *)
(***************************************************************************)
VARIABLES op, pc, patientData, ageInMonths, dosePerKg, maxDoseValue,
          medicationName, calculatedDose, weightInKg, inputValidation,
          validation, calc,
          weightKg, minDosePerKg, maxDosePerKg, absoluteMax, doseRange,
          otherPatient, otherCalc,
          currentScreen, selectedMedication, calculationResult, medications,
          isLoading, loadError,
          caller, retryPc, context, maxRetries, baseDelay, attempt,
          invocations, delays, response, fetched,
          formState, patientValidation, advanced, nextRejected

formVars == <<formState, patientValidation, advanced, nextRejected>>
retryVars == <<caller, retryPc, context, maxRetries, baseDelay, attempt,
               invocations, delays, response, fetched>>
appVars == <<currentScreen, selectedMedication, calculationResult, medications,
             isLoading, loadError>>
libraryVars == <<op, pc, ageInMonths, dosePerKg, maxDoseValue, medicationName,
                 calculatedDose, weightInKg, inputValidation, validation, calc>>
rangeVars == <<weightKg, minDosePerKg, maxDosePerKg, absoluteMax, doseRange>>
pairVars == <<otherPatient, otherCalc>>

vars == <<op, pc, patientData, ageInMonths, dosePerKg, maxDoseValue,
          medicationName, calculatedDose, weightInKg, inputValidation,
          validation, calc, rangeVars, pairVars, appVars, retryVars, formVars>>

\* The App component as constructed: the medications are being loaded.
AppConstructed ==
    /\ currentScreen = "home"
    /\ selectedMedication = null
    /\ calculationResult = null
    /\ medications = {}
    /\ isLoading = TRUE
    /\ loadError = null

\* useState<FormState>({ errors: [], touched: {}, isSubmitting: false })
NewFormState == [errors |-> <<>>, touched |-> {}, isSubmitting |-> FALSE]

\* The PatientInputScreen component as constructed.
FormConstructed ==
    /\ formState = NewFormState
    /\ patientValidation = null
    /\ advanced = FALSE
    /\ nextRejected = FALSE

\* No call of retryAsyncOperation has been made.
RetryIdle ==
    /\ caller = "none"
    /\ retryPc = "Idle"
    /\ context = <<>>
    /\ maxRetries = 0
    /\ baseDelay = 0
    /\ attempt = 0
    /\ invocations = <<>>
    /\ delays = <<>>
    /\ response = null
    /\ fetched = null

Init ==
    /\ AppConstructed
    /\ RetryIdle
    /\ FormConstructed
    /\ op = "none"
    /\ pc = "NotStarted"
    /\ patientData = null
    /\ ageInMonths = undefined
    /\ dosePerKg = undefined
    /\ maxDoseValue = undefined
    /\ medicationName = <<>>
    /\ calculatedDose = undefined
    /\ weightInKg = undefined
    /\ inputValidation = null
    /\ validation = null
    /\ calc = null
    /\ weightKg = undefined
    /\ minDosePerKg = undefined
    /\ maxDosePerKg = undefined
    /\ absoluteMax = undefined
    /\ doseRange = null
    /\ otherPatient = null
    /\ otherCalc = null

\* validateAge(age, ageUnit)
CallValidateAge ==
    /\ pc = "NotStarted"
    /\ \E age \in AgeInputs, ageUnit \in AgeUnits :
         /\ patientData' = PatientData(age, ageUnit, <<>>, "kg")
         /\ validation' = validateAge(age, ageUnit)
    /\ op' = "validateAge"
    /\ pc' = "Returned"
    /\ UNCHANGED <<ageInMonths, dosePerKg, maxDoseValue, medicationName,
                   calculatedDose, weightInKg, inputValidation, calc>>
    /\ UNCHANGED <<rangeVars, pairVars, appVars, retryVars, formVars>>

\* validateWeight(weight, weightUnit, ageInMonths)
CallValidateWeight ==
    /\ pc = "NotStarted"
    /\ \E weight \in WeightInputs, weightUnit \in WeightUnits, months \in AgeContexts :
         /\ patientData' = PatientData(<<>>, "months", weight, weightUnit)
         /\ ageInMonths' = months
         /\ validation' = validateWeight(weight, weightUnit, months)
    /\ op' = "validateWeight"
    /\ pc' = "Returned"
    /\ UNCHANGED <<dosePerKg, maxDoseValue, medicationName, calculatedDose,
                   weightInKg, inputValidation, calc>>
    /\ UNCHANGED <<rangeVars, pairVars, appVars, retryVars, formVars>>

\* validateDosage(calculatedDose, weightInKg, medication, maxDoseValue)
CallValidateDosage ==
    /\ pc = "NotStarted"
    /\ \E dose \in Doses, kg \in Kilograms, max \in MaxDoses :
         /\ calculatedDose' = dose
         /\ weightInKg' = kg
         /\ maxDoseValue' = max
         /\ validation' = validateDosage(dose, kg, Ibuprofen, max)
    /\ medicationName' = Ibuprofen
    /\ op' = "validateDosage"
    /\ pc' = "Returned"
    /\ UNCHANGED <<patientData, ageInMonths, dosePerKg, inputValidation, calc>>
    /\ UNCHANGED <<rangeVars, pairVars, appVars, retryVars, formVars>>

\* validatePatientData(age, ageUnit, weight, weightUnit)
CallValidatePatientData ==
    /\ pc = "NotStarted"
    /\ \E age \in AgeInputs, ageUnit \in AgeUnits,
          weight \in WeightInputs, weightUnit \in WeightUnits :
         /\ patientData' = PatientData(age, ageUnit, weight, weightUnit)
         /\ validation' = validatePatientData(age, ageUnit, weight, weightUnit)
    /\ op' = "validatePatientData"
    /\ pc' = "Returned"
    /\ UNCHANGED <<ageInMonths, dosePerKg, maxDoseValue, medicationName,
                   calculatedDose, weightInKg, inputValidation, calc>>
    /\ UNCHANGED <<rangeVars, pairVars, appVars, retryVars, formVars>>

\* calculateSafeDosage(patientData, dosePerKg, maxDoseValue, medicationName)
\* is entered.
Invoke ==
    /\ pc = "NotStarted"
    /\ patientData' \in DosagePatients
    /\ dosePerKg' \in DoseRates
    /\ maxDoseValue' \in MaxDoses
    /\ medicationName' \in MedicationNames
    /\ op' = "calculateSafeDosage"
    /\ pc' = "Validating"
    /\ UNCHANGED <<ageInMonths, calculatedDose, weightInKg, inputValidation,
                   validation, calc>>
    /\ UNCHANGED <<rangeVars, pairVars, appVars, retryVars, formVars>>

\* ValidateStep without the early return on invalid patient data.
ValidateStep_NoEarlyReturn(error, checked) ==
    IF error # <<>>
    THEN /\ calc' = CatchResult(error[1])
         /\ pc' = "Rejected"
         /\ UNCHANGED inputValidation
    ELSE /\ inputValidation' = checked
         /\ calc' = calc
         /\ pc' = "Computing"

\* The input checks and validatePatientData: the call returns a failure
\* (the catch block's object, or the early return), or goes on to the
\* arithmetic.
ValidateStep(error, checked) ==
    IF error # <<>>
    THEN /\ calc' = CatchResult(error[1])
         /\ pc' = "Rejected"
         /\ UNCHANGED inputValidation
    ELSE /\ inputValidation' = checked
         /\ IF ~checked.isValid
            THEN calc' = InvalidInputResult(checked) /\ pc' = "Rejected"
            ELSE calc' = calc /\ pc' = "Computing"

Validate ==
    /\ pc = "Validating"
    /\ ValidateStep(InputError(patientData, dosePerKg),
                    validatePatientData(patientData.age, patientData.ageUnit,
                                        patientData.weight, patientData.weightUnit))
    /\ UNCHANGED <<op, patientData, ageInMonths, dosePerKg, maxDoseValue,
                   medicationName, calculatedDose, weightInKg, validation>>
    /\ UNCHANGED <<rangeVars, pairVars, appVars, retryVars, formVars>>

\* The arithmetic and validateDosage: the call returns.
Compute ==
    /\ pc = "Computing"
    /\ weightInKg' = WeightInKg(patientData)
    /\ calculatedDose' = CalculatedDose(patientData, dosePerKg)
    /\ calc' = Computation(patientData, dosePerKg, maxDoseValue, medicationName,
                           inputValidation)
    /\ pc' = IF calc'.validation.isValid THEN "Result" ELSE "Rejected"
    /\ UNCHANGED <<op, patientData, ageInMonths, dosePerKg, maxDoseValue,
                   medicationName, inputValidation, validation>>
    /\ UNCHANGED <<rangeVars, pairVars, appVars, retryVars, formVars>>

\* calculateDoseRange(weightKg, minDosePerKg, maxDosePerKg, absoluteMax)
CallCalculateDoseRange ==
    /\ pc = "NotStarted"
    /\ \E w \in RangeWeights, min \in MinRates, max \in MaxRates, abs \in AbsoluteMaxes :
         /\ weightKg' = w
         /\ minDosePerKg' = min
         /\ maxDosePerKg' = max
         /\ absoluteMax' = abs
         /\ doseRange' = calculateDoseRange(w, min, max, abs)
    /\ op' = "calculateDoseRange"
    /\ pc' = "Returned"
    /\ UNCHANGED <<patientData, ageInMonths, dosePerKg, maxDoseValue,
                   medicationName, calculatedDose, weightInKg, inputValidation,
                   validation, calc, pairVars, appVars, retryVars, formVars>>

\* Two calls of calculateSafeDosage for patients that differ in the weight
\* alone, with the same rate, maximum and medication.
CallCalculateSafeDosageTwice ==
    /\ pc = "NotStarted"
    /\ \E age \in ComparedAges, ageUnit \in ComparedAgeUnits,
          w1 \in DosageWeights, u1 \in WeightUnits,
          w2 \in DosageWeights, u2 \in WeightUnits,
          rate \in ComparedRates, max \in ComparedMaxDoses :
         /\ <<w1, u1>> # <<w2, u2>>
         /\ patientData' = PatientData(age, ageUnit, w1, u1)
         /\ otherPatient' = PatientData(age, ageUnit, w2, u2)
         /\ dosePerKg' = rate
         /\ maxDoseValue' = max
         /\ calc' = calculateSafeDosage(PatientData(age, ageUnit, w1, u1),
                                        rate, max, Ibuprofen)
         /\ otherCalc' = calculateSafeDosage(PatientData(age, ageUnit, w2, u2),
                                             rate, max, Ibuprofen)
    /\ medicationName' = Ibuprofen
    /\ op' = "calculateSafeDosage twice"
    /\ pc' = "Returned"
    /\ UNCHANGED <<ageInMonths, calculatedDose, weightInKg, inputValidation,
                   validation, rangeVars, appVars, retryVars, formVars>>

Next ==
    \/ CallCalculateDoseRange
    \/ CallCalculateSafeDosageTwice
    \/ CallValidateAge
    \/ CallValidateWeight
    \/ CallValidateDosage
    \/ CallValidatePatientData
    \/ Invoke
    \/ Validate
    \/ Compute

Spec == Init /\ [][Next]_vars

\* A step of a call of calculateSafeDosage that has been entered and has not
\* returned.  (Under Next these are the Validate and Compute steps, one of
\* which is possible at every such point.)
Proceed ==
    /\ op = "calculateSafeDosage"
    /\ pc \in {"Validating", "Computing"}
    /\ pc' \in {"Computing", "Rejected", "Result"} \ {pc}

\* calculateSafeDosage is synchronous: once entered, it runs to its return.
FairSpec == Spec /\ WF_pc(Proceed)

(***************************************************************************)
(* The App component: the screens and their handlers.                      *)
(***************************************************************************)
\* A screen of the flow is displayed: the medications are loaded.
Displayed(screen) == ~isLoading /\ loadError = null /\ currentScreen = screen

AppInit ==
    /\ AppConstructed
    /\ RetryIdle
    /\ FormConstructed
    /\ op = "none"
    /\ pc = "NotStarted"
    /\ \E weightUnit \in WeightUnits :
         patientData = PatientData(<<>>, "years", <<>>, weightUnit)
    /\ ageInMonths = undefined
    /\ dosePerKg = undefined
    /\ maxDoseValue = undefined
    /\ medicationName = <<>>
    /\ calculatedDose = undefined
    /\ weightInKg = undefined
    /\ inputValidation = null
    /\ validation = null
    /\ calc = null
    /\ weightKg = undefined
    /\ minDosePerKg = undefined
    /\ maxDosePerKg = undefined
    /\ absoluteMax = undefined
    /\ doseRange = null
    /\ otherPatient = null
    /\ otherCalc = null

elsewhere == <<libraryVars, rangeVars, pairVars, retryVars, formVars>>

\* loadMedications: the drugs are fetched and converted, or the load fails
\* (an error, or no drug).
LoadMedications ==
    /\ isLoading
    /\ \/ /\ medications' = convertPediatricDrugsToMedications(Drugs)
          /\ loadError' = null
       \/ /\ medications' = medications
          /\ loadError' = [message |-> "Failed to load medication database"]
    /\ isLoading' = FALSE
    /\ UNCHANGED <<currentScreen, selectedMedication, calculationResult,
                   patientData, elsewhere>>

\* Retry Connection: window.location.reload()
RetryConnection ==
    /\ ~isLoading /\ loadError # null
    /\ currentScreen' = "home"
    /\ selectedMedication' = null
    /\ calculationResult' = null
    /\ medications' = {}
    /\ isLoading' = TRUE
    /\ loadError' = null
    /\ patientData' = PatientData(<<>>, "years", <<>>, patientData.weightUnit)
    /\ UNCHANGED elsewhere

\* setCurrentScreen(screen) from a control of the screen from.
Navigate(from, screen) ==
    /\ Displayed(from)
    /\ currentScreen' = screen
    /\ UNCHANGED <<selectedMedication, calculationResult, medications,
                   isLoading, loadError, patientData, elsewhere>>

NewCalculationCard == Navigate("home", "patient")
OpenCalculators == Navigate("home", "calculators")
OpenSettings == Navigate("home", "settings")
\* onBack of the calculators and settings screens.
OnBack == Navigate("calculators", "home") \/ Navigate("settings", "home")
\* The Next button of the patient screen: disabled while the age or the
\* weight is empty.
PatientNext ==
    /\ patientData.age # <<>> /\ patientData.weight # <<>>
    /\ Navigate("patient", "medication")
Recalculate == Navigate("results", "medication")

screenFlow ==
    [home |-> "home", patient |-> "home", medication |-> "patient",
     results |-> "medication", calculators |-> "home", settings |-> "home"]

goBack ==
    \E from \in {"patient", "medication", "results"} :
        Navigate(from, screenFlow[from])

\* onChange / onValueChange of the four inputs of the patient screen.
SetPatientData ==
    /\ Displayed("patient")
    /\ \/ \E age \in AppAges : patientData' = [patientData EXCEPT !.age = age]
       \/ \E unit \in AgeUnits : patientData' = [patientData EXCEPT !.ageUnit = unit]
       \/ \E weight \in AppWeights : patientData' = [patientData EXCEPT !.weight = weight]
       \/ \E unit \in WeightUnits : patientData' = [patientData EXCEPT !.weightUnit = unit]
    /\ UNCHANGED <<appVars, elsewhere>>

\* onClick of a medication card.
SelectMedication ==
    /\ Displayed("medication")
    /\ selectedMedication' \in medications
    /\ UNCHANGED <<currentScreen, calculationResult, medications, isLoading,
                   loadError, patientData, elsewhere>>

\* The Calculate Dosage button (disabled while no medication is selected);
\* the handler returns at once, changing nothing, without a medication or a
\* weight.
calculateDosage ==
    /\ Displayed("medication")
    /\ selectedMedication # null /\ patientData.weight # <<>>
    /\ calculationResult' = CalculationOf(selectedMedication, patientData)
    /\ currentScreen' = "results"
    /\ UNCHANGED <<selectedMedication, medications, isLoading, loadError,
                   patientData, elsewhere>>

\* resetCalculation keeping the selected medication.
resetCalculation_KeepsMedication ==
    /\ Displayed("results")
    /\ patientData' = PatientData(<<>>, "years", <<>>, "kg")
    /\ calculationResult' = null
    /\ currentScreen' = "home"
    /\ UNCHANGED <<selectedMedication, medications, isLoading, loadError, elsewhere>>

\* New Patient
resetCalculation ==
    /\ Displayed("results")
    /\ patientData' = PatientData(<<>>, "years", <<>>, "kg")
    /\ selectedMedication' = null
    /\ calculationResult' = null
    /\ currentScreen' = "home"
    /\ UNCHANGED <<medications, isLoading, loadError, elsewhere>>

AppNext ==
    \/ LoadMedications
    \/ RetryConnection
    \/ NewCalculationCard
    \/ OpenCalculators
    \/ OpenSettings
    \/ OnBack
    \/ PatientNext
    \/ Recalculate
    \/ goBack
    \/ SetPatientData
    \/ SelectMedication
    \/ calculateDosage
    \/ resetCalculation

AppSpec == AppInit /\ [][AppNext]_vars

(***************************************************************************)
(* retryAsyncOperation and fetchAllDrugs.                                  *)
(***************************************************************************)
\* retryAsyncOperation(operation, context, maxRetries, baseDelay)
Enter(by, ctx, retries, delay) ==
    /\ retryPc = "Idle"
    /\ caller' = by
    /\ context' = ctx
    /\ maxRetries' = retries
    /\ baseDelay' = delay
    /\ attempt' = 0
    /\ retryPc' = "Attempting"
    /\ UNCHANGED <<invocations, delays, response, fetched>>
    /\ UNCHANGED <<libraryVars, patientData, rangeVars, pairVars, appVars,
                   formVars>>

CallRetryAsyncOperation ==
    \E ctx \in Contexts, retries \in 0..MaxRetriesLimit, delay \in BaseDelays :
        Enter("retryAsyncOperation", ctx, retries, delay)

\* fetchAllDrugs()
CallFetchAllDrugs == Enter("fetchAllDrugs", FetchAllDrugsContext, 2, 1000)

\* retryAsyncOperation returns result; fetchAllDrugs goes on from its await.
Return(result) ==
    /\ response' = result
    /\ retryPc' = "Returned"
    /\ fetched' = IF caller = "fetchAllDrugs" THEN FetchOutcome(result) ELSE fetched
    /\ UNCHANGED attempt

\* The loop body after the await of safeAsyncOperation.
Continue(result) ==
    IF result.success \/ ~result.shouldRetry THEN Return(result)
    ELSE IF attempt < maxRetries
         THEN /\ retryPc' = "Waiting"
              /\ UNCHANGED <<attempt, response, fetched>>
         ELSE /\ attempt' = attempt + 1
              /\ UNCHANGED <<retryPc, response, fetched>>

\* One invocation of the operation through safeAsyncOperation: in the loop,
\* or in the statement after the loop.
Invocation(outcome) ==
    /\ invocations' = Append(invocations, outcome)
    /\ IF attempt <= maxRetries
       THEN Continue(safeAsyncOperation(outcome, context, maxRetries - attempt))
       ELSE Return(safeAsyncOperation(outcome, context, 0))
    /\ UNCHANGED <<caller, context, maxRetries, baseDelay, delays>>
    /\ UNCHANGED <<libraryVars, patientData, rangeVars, pairVars, appVars,
                   formVars>>

Attempt ==
    /\ retryPc = "Attempting"
    /\ \/ /\ caller = "retryAsyncOperation"
          /\ \E outcome \in OperationOutcomes : Invocation(outcome)
       \/ /\ caller = "fetchAllDrugs"
          /\ \E reply \in QueryReplies : Invocation(QueryOutcome(reply))

\* The timer of the exponential backoff fires and the loop goes on.
TimerFires ==
    /\ retryPc = "Waiting"
    /\ delays' = Append(delays, baseDelay * 2^attempt)
    /\ attempt' = attempt + 1
    /\ retryPc' = "Attempting"
    /\ UNCHANGED <<caller, context, maxRetries, baseDelay, invocations,
                   response, fetched>>
    /\ UNCHANGED <<libraryVars, patientData, rangeVars, pairVars, appVars,
                   formVars>>

RetryNext ==
    \/ CallRetryAsyncOperation
    \/ CallFetchAllDrugs
    \/ Attempt
    \/ TimerFires

RetrySpec == Init /\ [][RetryNext]_vars

(***************************************************************************)
(* The PatientInputScreen component.                                       *)
(***************************************************************************)
FieldError(field, message) == [field |-> field, message |-> message]

\* validateInput(field, value)
validateInput(field, value) ==
    IF field = "age"
    THEN IF value = <<>> \/ trim(value) = <<>>
         THEN <<FieldError("age", Msg("Age is required"))>>
         ELSE IF isNaN(parseFloat(value))
         THEN <<FieldError("age", Msg("Age must be a valid number"))>>
         ELSE IF LessEq(parseFloat(value), Num(0))
         THEN <<FieldError("age", Msg("Age must be greater than zero"))>>
         ELSE <<>>
    ELSE IF field = "weight"
    THEN IF value = <<>> \/ trim(value) = <<>>
         THEN <<FieldError("weight", Msg("Weight is required"))>>
         ELSE IF isNaN(parseFloat(value))
         THEN <<FieldError("weight", Msg("Weight must be a valid number"))>>
         ELSE IF LessEq(parseFloat(value), Num(0))
         THEN <<FieldError("weight", Msg("Weight must be greater than zero"))>>
         ELSE <<>>
    ELSE <<>>

\* prev.errors.filter(error => error.field !== field)
RECURSIVE OfOtherFields(_, _)
OfOtherFields(errors, field) ==
    IF errors = <<>> THEN <<>>
    ELSE IF Head(errors).field # field
    THEN <<Head(errors)>> \o OfOtherFields(Tail(errors), field)
    ELSE OfOtherFields(Tail(errors), field)

\* updateFieldErrors(field, value): the errors it leaves in formState.
updateFieldErrors(errors, field, value) ==
    OfOtherFields(errors, field) \o validateInput(field, value)

\* handleInputChange(field, value)
handleInputChange(field, value) ==
    /\ ~advanced
    /\ patientData' = [patientData EXCEPT ![field] = value]
    /\ patientValidation' = null
    /\ formState' =
         [formState EXCEPT
            !.touched = @ \cup {field},
            !.errors = IF field \in {"age", "weight"}
                       THEN updateFieldErrors(@, field, value)
                       ELSE @]
    /\ UNCHANGED <<advanced, nextRejected>>
    /\ UNCHANGED <<libraryVars, rangeVars, pairVars, appVars, retryVars>>

\* onChange and onValueChange of the four inputs.
ChangeAge == \E value \in AppAges : handleInputChange("age", value)
ChangeAgeUnit == \E value \in AgeUnits : handleInputChange("ageUnit", value)
ChangeWeight == \E value \in AppWeights : handleInputChange("weight", value)
ChangeWeightUnit == \E value \in WeightUnits : handleInputChange("weightUnit", value)

\* onBlur of the age and weight inputs.
Blur ==
    /\ ~advanced
    /\ \E field \in {"age", "weight"} :
         formState' = [formState EXCEPT !.touched = @ \cup {field}]
    /\ UNCHANGED <<patientData, patientValidation, advanced, nextRejected>>
    /\ UNCHANGED <<libraryVars, rangeVars, pairVars, appVars, retryVars>>

\* The disabled attribute of the Next button.
NextDisabled ==
    \/ patientData.age = <<>>
    \/ patientData.weight = <<>>
    \/ formState.isSubmitting
    \/ Len(formState.errors) > 0

\* The basic form validation of handleNext.
basicErrors(pd) ==
    (IF pd.age = <<>> \/ trim(pd.age) = <<>>
     THEN <<FieldError("age", Msg("Age is required"))>> ELSE <<>>)
    \o (IF pd.weight = <<>> \/ trim(pd.weight) = <<>>
        THEN <<FieldError("weight", Msg("Weight is required"))>> ELSE <<>>)

\* validation.errors.map((error, index) => ...)
formErrors(result) ==
    [index \in 1..Len(result.errors) |->
        FieldError(IF index = 1 THEN "age" ELSE "weight", result.errors[index])]

\* handleNext from the comprehensive validation on.
Submit(result) ==
    IF result.isValid
    THEN /\ advanced' = TRUE
         /\ formState' = [formState EXCEPT !.errors = <<>>, !.isSubmitting = FALSE]
         /\ UNCHANGED <<patientValidation, nextRejected>>
    ELSE /\ patientValidation' = result
         /\ formState' = [errors |-> formErrors(result),
                          touched |-> {"age", "weight"},
                          isSubmitting |-> FALSE]
         /\ nextRejected' = TRUE
         /\ UNCHANGED advanced

\* onClick of the Next button
handleNext ==
    /\ ~advanced
    /\ ~NextDisabled
    /\ IF Len(basicErrors(patientData)) > 0
       THEN /\ formState' = [errors |-> basicErrors(patientData),
                             touched |-> {"age", "weight"},
                             isSubmitting |-> FALSE]
            /\ nextRejected' = TRUE
            /\ UNCHANGED <<patientValidation, advanced>>
       ELSE Submit(validatePatientData(patientData.age, patientData.ageUnit,
                                       patientData.weight, patientData.weightUnit))
    /\ UNCHANGED patientData
    /\ UNCHANGED <<libraryVars, rangeVars, pairVars, appVars, retryVars>>

\* The component is constructed again when its screen is shown again.
PatientInputScreen ==
    /\ advanced
    /\ formState' = NewFormState
    /\ advanced' = FALSE
    /\ nextRejected' = FALSE
    /\ UNCHANGED <<patientData, patientValidation>>
    /\ UNCHANGED <<libraryVars, rangeVars, pairVars, appVars, retryVars>>

FormNext ==
    \/ ChangeAge
    \/ ChangeAgeUnit
    \/ ChangeWeight
    \/ ChangeWeightUnit
    \/ Blur
    \/ handleNext
    \/ PatientInputScreen

FormSpec == AppInit /\ [][FormNext]_vars

(***************************************************************************)
(* Properties                                                              *)
(***************************************************************************)
Returned(f) == op = f /\ pc = "Returned"
\* calculateSafeDosage has returned.
DosageReturned == op = "calculateSafeDosage" /\ pc \in {"Rejected", "Result"}

\* The age and weight validations of the patient data of the call.
AgeValidationOf(pd) == validateAge(pd.age, pd.ageUnit)
PatientValidationOf(pd) ==
    validatePatientData(pd.age, pd.ageUnit, pd.weight, pd.weightUnit)

WeightTexts ==
    {"Weight is required", "Weight must be a valid number",
     "Weight must be greater than zero",
     "Weight too low for safe calculations (minimum 0.5kg)",
     "Weight exceeds pediatric range (maximum 100kg)",
     "Weight unusual for neonate (typical range: 0.5-6kg)",
     "Weight unusual for infant age (typical range: 2-15kg)",
     "For weights under 1kg, consider using grams for better precision",
     "Very low birth weight detected: Consider specialized neonatal guidelines"}

NoWeightMessage(messages) ==
    \A i \in 1..Len(messages) : messages[i].text \notin WeightTexts

\* C1: whenever validateAge fails, validatePatientData returns isValid =
\* false with exactly the age validation's errors, warnings and safetyLevel
\* and no message of the weight validation, whatever the weight is.
C1_AgeFailureReturnsImmediately ==
    (Returned("validatePatientData") /\ ~AgeValidationOf(patientData).isValid)
        => /\ validation.isValid = FALSE
           /\ validation.errors = AgeValidationOf(patientData).errors
           /\ validation.warnings = AgeValidationOf(patientData).warnings
           /\ validation.safetyLevel = AgeValidationOf(patientData).safetyLevel
           /\ NoWeightMessage(validation.errors)
           /\ NoWeightMessage(validation.warnings)

\* An age that fails, with a weight that would fail as well.
C1_Witness ==
    /\ Returned("validatePatientData")
    /\ ~AgeValidationOf(patientData).isValid
    /\ ~validateWeight(patientData.weight, patientData.weightUnit, undefined).isValid
    /\ Len(validation.errors) = 1

Severity(level) ==
    CASE level = "danger" -> 2 [] level = "caution" -> 1 [] OTHER -> 0

MoreSevere(a, b) == IF Severity(a) >= Severity(b) THEN a ELSE b

\* The result the aggregation rule gives from an age validation and the
\* weight validation run with the normalized age.
Aggregated(av, wv) ==
    [isValid |-> av.isValid /\ wv.isValid,
     errors |-> av.errors \o wv.errors,
     warnings |-> av.warnings \o wv.warnings,
     safetyLevel |-> MoreSevere(av.safetyLevel, wv.safetyLevel)]

AggregatedOf(pd) ==
    Aggregated(AgeValidationOf(pd),
               validateWeight(pd.weight, pd.weightUnit,
                              AgeValidationOf(pd).normalizedValue))

AgreesWithAggregate(result, pd) ==
    /\ result.isValid = AggregatedOf(pd).isValid
    /\ result.errors = AggregatedOf(pd).errors
    /\ result.warnings = AggregatedOf(pd).warnings
    /\ result.safetyLevel = AggregatedOf(pd).safetyLevel

\* C2 as stated: for every input validatePatientData returns the
\* aggregate of the age validation and the weight validation.
C2_AggregatesForEveryInput ==
    Returned("validatePatientData") => AgreesWithAggregate(validation, patientData)

\* C2 as amended: whenever the age validation succeeds, validatePatientData
\* returns isValid = (age isValid and weight isValid), the age lists
\* followed by the weight lists, and the more severe safetyLevel.
C2_AggregatesWhenAgeValid ==
    (Returned("validatePatientData") /\ AgeValidationOf(patientData).isValid)
        => AgreesWithAggregate(validation, patientData)

\* A valid neonate age (caution) with a valid, unremarkable weight (safe).
C2_Witness ==
    /\ Returned("validatePatientData")
    /\ AgeValidationOf(patientData).isValid
    /\ AgeValidationOf(patientData).safetyLevel = "caution"
    /\ validateWeight(patientData.weight, patientData.weightUnit,
                      AgeValidationOf(patientData).normalizedValue).safetyLevel = "safe"
    /\ validation.isValid
    /\ validation.safetyLevel = "caution"

ValidIffNoErrors(result) == result.isValid <=> (result.errors = <<>>)

\* C3: in every ValidationResult returned by validateAge, validateWeight,
\* validateDosage and validatePatientData, and in the validation of every
\* calculateSafeDosage result, isValid is true exactly when errors is empty.
C3_ValidIffNoErrors ==
    /\ (pc = "Returned" /\ validation # null) => ValidIffNoErrors(validation)
    /\ DosageReturned => ValidIffNoErrors(calc.validation)

\* A returned calculation that is valid although it carries warnings.
C3_Witness ==
    /\ DosageReturned
    /\ calc.validation.isValid
    /\ calc.validation.warnings # <<>>
    /\ calc.validation.errors = <<>>

\* The number an input string stands for, and the rejection rule of the
\* age contract on it.
NumberOf(str) == parseFloat(trim(str))

AgeInMonthsOf(x, unit) ==
    CASE unit = "years" -> Times(x, Num(12))
      [] unit = "days" -> Over(x, Fin(3044, 100))
      [] OTHER -> x

AgeRejected(str, unit) ==
    \/ trim(str) = <<>>
    \/ isNaN(NumberOf(str))
    \/ LessEq(NumberOf(str), Num(0))
    \/ Greater(AgeInMonthsOf(NumberOf(str), unit), Num(216))
    \/ unit = "days" /\ Greater(NumberOf(str), Num(6570))
    \/ unit = "days" /\ Less(NumberOf(str), Num(1))

\* C4: validateAge returns isValid = false with safetyLevel = danger if
\* and only if the input is empty or white space, is not numeric, is <= 0,
\* converts to more than 216 months, or (in days) is > 6570 or < 1, and
\* isValid = true otherwise; "18" years is valid, "18.01" years is invalid
\* and "0" is invalid in every unit.
C4_AgeRejectedIff ==
    Returned("validateAge") =>
        /\ validation.isValid = ~AgeRejected(patientData.age, patientData.ageUnit)
        /\ ~validation.isValid => validation.safetyLevel = "danger"
        /\ (patientData.age = <<"1", "8">> /\ patientData.ageUnit = "years")
               => validation.isValid
        /\ (patientData.age = <<"1", "8", ".", "0", "1">> /\ patientData.ageUnit = "years")
               => ~validation.isValid
        /\ patientData.age = <<"0">> => ~validation.isValid

\* "18.01" years is rejected.
C4_Witness ==
    /\ Returned("validateAge")
    /\ patientData.age = <<"1", "8", ".", "0", "1">>
    /\ patientData.ageUnit = "years"
    /\ ~validation.isValid
    /\ validation.safetyLevel = "danger"

WeightInKgOf(x, unit) ==
    IF unit = "lbs" THEN Times(x, Fin(453592, 1000000)) ELSE x

WeightRejected(str, unit) ==
    \/ trim(str) = <<>>
    \/ isNaN(NumberOf(str))
    \/ LessEq(NumberOf(str), Num(0))
    \/ Less(WeightInKgOf(NumberOf(str), unit), Fin(1, 2))
    \/ Greater(WeightInKgOf(NumberOf(str), unit), Num(100))

\* C6: validateWeight returns isValid = false (safetyLevel = danger) if and
\* only if the input is empty, non-numeric, <= 0, or its value in kilograms
\* (pounds times 0.453592) lies outside [0.5, 100]; 0.5 kg and 100 kg are
\* valid, 0.49 kg and 100.01 kg are invalid.
C6_WeightRejectedIff ==
    Returned("validateWeight") =>
        /\ validation.isValid = ~WeightRejected(patientData.weight, patientData.weightUnit)
        /\ ~validation.isValid => validation.safetyLevel = "danger"
        /\ patientData.weightUnit = "kg" =>
              /\ patientData.weight = <<"0", ".", "5">> => validation.isValid
              /\ patientData.weight = <<"1", "0", "0">> => validation.isValid
              /\ patientData.weight = <<"0", ".", "4", "9">> => ~validation.isValid
              /\ patientData.weight = <<"1", "0", "0", ".", "0", "1">> => ~validation.isValid

\* 100 kg, the upper endpoint, is accepted.
C6_Witness ==
    /\ Returned("validateWeight")
    /\ patientData.weight = <<"1", "0", "0">>
    /\ patientData.weightUnit = "kg"
    /\ validation.isValid

\* The caution rule of the weight contract, for a weight of kg kilograms
\* and the age context months.
WeightCaution(kg, months) ==
    \/ Less(kg, Fin(5, 2))
    \/ /\ LessEq(months, Num(1))
       /\ Less(kg, Fin(1, 2)) \/ Greater(kg, Num(6))
    \/ /\ Greater(months, Num(1))
       /\ LessEq(months, Num(12))
       /\ Less(kg, Num(2)) \/ Greater(kg, Num(15))

\* C7: for every weight inside [0.5 kg, 100 kg] validateWeight returns
\* isValid = true whatever ageInMonths is, with safetyLevel caution exactly
\* when the weight is < 2.5 kg, or ageInMonths <= 1 and the weight is
\* outside 0.5-6 kg, or 1 < ageInMonths <= 12 and the weight is outside
\* 2-15 kg, and safe otherwise.
C7_OutOfBandIsWarning ==
    (Returned("validateWeight")
        /\ ~WeightRejected(patientData.weight, patientData.weightUnit))
    => /\ validation.isValid
       /\ validation.errors = <<>>
       /\ validation.safetyLevel =
             IF WeightCaution(WeightInKgOf(NumberOf(patientData.weight),
                                           patientData.weightUnit),
                              ageInMonths)
             THEN "caution" ELSE "safe"

\* A 16 kg infant: outside the infant band, valid with a caution.
C7_Witness ==
    /\ Returned("validateWeight")
    /\ patientData.weight = <<"1", "6">>
    /\ patientData.weightUnit = "kg"
    /\ ageInMonths = Num(6)
    /\ validation.isValid
    /\ validation.safetyLevel = "caution"
    /\ validation.warnings # <<>>

\* dosePerKg is not finite or is <= 0.
RateRejected(rate) == ~isFinite(rate) \/ LessEq(rate, Num(0))

\* C8: if dosePerKg is not finite or is <= 0, calculateSafeDosage returns,
\* without computing any dose, result = 0, validation.isValid = false,
\* validation.safetyLevel = danger, a non-empty validation.errors and
\* isRecommended = false, whatever the patient data is.
C8_InvalidRateRejected ==
    (op = "calculateSafeDosage" /\ pc # "Validating" /\ RateRejected(dosePerKg))
    => /\ pc = "Rejected"
       /\ calculatedDose = undefined
       /\ calc.result = Num(0)
       /\ calc.validation.isValid = FALSE
       /\ calc.validation.safetyLevel = "danger"
       /\ calc.validation.errors # <<>>
       /\ calc.isRecommended = FALSE

\* A rejected rate with patient data that is itself valid.
C8_Witness ==
    /\ DosageReturned
    /\ dosePerKg = NaN
    /\ patientData # null
    /\ PatientValidationOf(patientData).isValid
    /\ calc.validation.isValid = FALSE

\* C9: for a valid dosePerKg, whenever validatePatientData rejects the
\* patient data, calculateSafeDosage returns result = 0, isRecommended =
\* false and that input validation as its validation; no dose is computed.
C9_InvalidPatientRejected ==
    (op = "calculateSafeDosage" /\ pc # "Validating" /\ ~RateRejected(dosePerKg)
        /\ patientData # null /\ ~PatientValidationOf(patientData).isValid)
    => /\ pc = "Rejected"
       /\ calculatedDose = undefined
       /\ calc.result = Num(0)
       /\ calc.isRecommended = FALSE
       /\ calc.validation = PatientValidationOf(patientData)
       /\ calc.validation.isValid = FALSE
       /\ calc.validation.errors # <<>>

\* A valid rate with a weight that validatePatientData rejects.
C9_Witness ==
    /\ DosageReturned
    /\ dosePerKg = Num(10)
    /\ patientData # null
    /\ AgeValidationOf(patientData).isValid
    /\ ~PatientValidationOf(patientData).isValid
    /\ calc.validation.errors = PatientValidationOf(patientData).errors

\* The validity and safety level the per-kg bands assign to the rate r.
BandOf(r) ==
    IF Greater(r, Num(100)) THEN [isValid |-> FALSE, safetyLevel |-> "danger"]
    ELSE IF Greater(r, Num(75)) THEN [isValid |-> TRUE, safetyLevel |-> "danger"]
    ELSE IF Greater(r, Num(50)) THEN [isValid |-> TRUE, safetyLevel |-> "caution"]
    ELSE IF Less(r, Fin(1, 1000)) THEN [isValid |-> TRUE, safetyLevel |-> "caution"]
    ELSE [isValid |-> TRUE, safetyLevel |-> "safe"]

\* calculateSafeDosage returned from the validation of the calculated dose.
DoseValidated ==
    /\ DosageReturned
    /\ isFinite(calculatedDose)
    /\ LessEq(calculatedDose, Num(10000))

\* C10: for valid patient data and no medication maximum, with
\* r = calculatedDose / weightInKg: r > 100 is a hard error (isValid =
\* false, danger, not recommended); 75 < r <= 100 is valid with danger;
\* 50 < r <= 75 is caution; r < 0.001 is caution; otherwise safe.  The
\* boundaries 50, 75 and 100 fall in the lower band.
C10_PerKgBands ==
    (DoseValidated /\ maxDoseValue = undefined)
    => /\ calc.validation.isValid = BandOf(Over(calculatedDose, weightInKg)).isValid
       /\ calc.validation.safetyLevel = BandOf(Over(calculatedDose, weightInKg)).safetyLevel
       /\ ~calc.validation.isValid => ~calc.isRecommended
       /\ Over(calculatedDose, weightInKg) = Num(50) => calc.validation.safetyLevel = "safe"
       /\ Over(calculatedDose, weightInKg) = Num(75) => calc.validation.safetyLevel = "caution"
       /\ Over(calculatedDose, weightInKg) = Num(100) =>
             calc.validation.isValid /\ calc.validation.safetyLevel = "danger"

\* A rate of exactly 75 mg/kg, classified caution.
C10_Witness ==
    /\ DoseValidated
    /\ maxDoseValue = undefined
    /\ Over(calculatedDose, weightInKg) = Num(75)
    /\ calc.validation.isValid
    /\ calc.validation.safetyLevel = "caution"

\* dosePerKg x weightInKg for the patient data and rate of the call.
ProductOf(pd, rate) ==
    Times(rate, WeightInKgOf(parseFloat(pd.weight), pd.weightUnit))

HasText(messages, text) ==
    \E i \in 1..Len(messages) : messages[i].text = text

UnreasonablyHigh == "Calculated dose is unreasonably high. Please verify inputs."

\* C11: whenever dosePerKg x weightInKg exceeds 10,000 mg,
\* calculateSafeDosage returns result = 0, validation.isValid = false,
\* safetyLevel = danger and isRecommended = false, whatever the rate and
\* the medication maximum are; a dose of exactly 10,000 mg is not rejected
\* by the ceiling (100 mg/kg x 100 kg returns 10,000).
C11_CeilingRejects ==
    (DosageReturned /\ patientData # null) =>
        /\ Greater(ProductOf(patientData, dosePerKg), Num(10000)) =>
              /\ pc = "Rejected"
              /\ calc.result = Num(0)
              /\ calc.validation.isValid = FALSE
              /\ calc.validation.safetyLevel = "danger"
              /\ calc.isRecommended = FALSE
        /\ (calculatedDose # undefined /\ Greater(calculatedDose, Num(10000))) =>
              HasText(calc.validation.errors, UnreasonablyHigh)
        /\ (calculatedDose = Num(10000)) =>
              /\ ~HasText(calc.validation.errors, UnreasonablyHigh)
              /\ calc.result = Num(10000)
              /\ dosePerKg = Num(100) => calc.validation.isValid

\* 200 mg/kg for 60 kg: 12,000 mg, rejected by the ceiling.
C11_Witness ==
    /\ DosageReturned
    /\ dosePerKg = Num(200)
    /\ calculatedDose = Num(12000)
    /\ PatientValidationOf(patientData).isValid
    /\ calc.result = Num(0)
    /\ HasText(calc.validation.errors, UnreasonablyHigh)

\* The maximum-dose warning for a medication, a dose and a maximum.
MaximumWarning(medication, dose, max) ==
    Message("Calculated dose exceeds maximum recommended dose", medication,
            <<toFixed(dose, 1), max>>)

Contains(messages, m) == \E i \in 1..Len(messages) : messages[i] = m

NameUsed(name) ==
    IF name = <<>> \/ trim(name) = <<>> THEN UnknownMedication ELSE name

\* The calculated dose of the call exceeds the medication maximum passed.
OverMaximum ==
    /\ DosageReturned
    /\ calculatedDose # undefined
    /\ maxDoseValue # undefined
    /\ Greater(calculatedDose, maxDoseValue)

MaximumReported ==
    /\ calc.validation.isValid
    /\ calc.validation.safetyLevel # "safe"
    /\ Contains(calc.validation.warnings,
                MaximumWarning(NameUsed(medicationName), calculatedDose, maxDoseValue))
    /\ Contains(calc.warnings,
                MaximumWarning(NameUsed(medicationName), calculatedDose, maxDoseValue))
    /\ calc.isRecommended = FALSE

\* C12 as stated: whenever a medication maximum is supplied and the
\* calculated dose exceeds it, the result is still valid, its safetyLevel
\* is not safe, its warnings contain the maximum-dose warning naming the
\* medication and both values, and it is not recommended.
C12_MaximumAlwaysReported == OverMaximum => MaximumReported

\* C12 as amended: whenever a non-zero medication maximum is supplied and
\* the calculated dose exceeds it, the result is not recommended and its
\* safetyLevel is not safe; if moreover the rate is at most 100 mg/kg, the
\* result is valid and its warnings contain the maximum-dose warning naming
\* the medication and both values.
C12_MaximumReportedWithinLimit ==
    (OverMaximum /\ maxDoseValue # Num(0)) =>
        /\ calc.isRecommended = FALSE
        /\ calc.validation.safetyLevel # "safe"
        /\ LessEq(Over(calculatedDose, weightInKg), Num(100)) => MaximumReported

\* 5 mg/kg for 100 kg: 500 mg against a maximum of 400 mg.
C12_Witness ==
    /\ OverMaximum
    /\ dosePerKg = Num(5)
    /\ calculatedDose = Num(500)
    /\ maxDoseValue = Num(400)
    /\ medicationName = Ibuprofen
    /\ calc.validation.isValid
    /\ calc.validation.safetyLevel = "caution"
    /\ calc.isRecommended = FALSE

\* C13: in every result calculateSafeDosage returns, on the success path
\* and on the failure paths, isRecommended is true if and only if
\* validation.isValid is true and validation.safetyLevel is safe.
C13_RecommendedIffValidAndSafe ==
    DosageReturned =>
        (calc.isRecommended <=>
            (calc.validation.isValid /\ calc.validation.safetyLevel = "safe"))

\* A valid result in the danger band: not recommended.
C13_Witness ==
    /\ DosageReturned
    /\ calc.validation.isValid
    /\ calc.validation.safetyLevel = "danger"
    /\ calc.isRecommended = FALSE

Terminal == {"Rejected", "Result"}

\* The steps of the calculator's state machine.
CalculatorSteps ==
    {<<"NotStarted", "Validating">>, <<"Validating", "Rejected">>,
     <<"Validating", "Computing">>, <<"Computing", "Rejected">>,
     <<"Computing", "Result">>}

\* A SafeMedicalCalculation with every field present and a failure
\* represented by isValid = false with errors.
FullyPopulated(c) ==
    /\ c # null
    /\ DOMAIN c = {"result", "validation", "inputValidation", "isRecommended", "warnings"}
    /\ isFinite(c.result)
    /\ c.isRecommended \in BOOLEAN
    /\ c.validation # null
    /\ c.inputValidation # null
    /\ c.validation.isValid \in BOOLEAN
    /\ c.validation.safetyLevel \in {"safe", "caution", "danger"}
    /\ ~c.validation.isValid => c.validation.errors # <<>>

ValidRangeInputs ==
    /\ isFinite(weightKg) /\ Greater(weightKg, Num(0))
    /\ isFinite(minDosePerKg) /\ GreaterEq(minDosePerKg, Num(0))
    /\ isFinite(maxDosePerKg) /\ LessEq(minDosePerKg, maxDosePerKg)

\* The midpoint of the two doses, before rounding.
MidpointOf(w, min, max) == Over(Plus(Times(min, w), Times(max, w)), Num(2))

\* C16: for valid inputs calculateDoseRange returns minDose = minDosePerKg
\* x weightKg, maxDose = maxDosePerKg x weightKg and recommendedDose =
\* (minDose + maxDose) / 2, each rounded to 2 decimal places; weight 20 with
\* 10-20 mg/kg gives 200, 400 and 300.
C16_RangeDoses ==
    (Returned("calculateDoseRange") /\ ValidRangeInputs) =>
        /\ doseRange.minDose = toFixed(Times(minDosePerKg, weightKg), 2)
        /\ doseRange.maxDose = toFixed(Times(maxDosePerKg, weightKg), 2)
        /\ doseRange.recommendedDose =
              toFixed(MidpointOf(weightKg, minDosePerKg, maxDosePerKg), 2)
        /\ (weightKg = Num(20) /\ minDosePerKg = Num(10) /\ maxDosePerKg = Num(20)) =>
              /\ doseRange.minDose = Num(200)
              /\ doseRange.maxDose = Num(400)
              /\ doseRange.recommendedDose = Num(300)

\* 1 kg with 0.125-10 mg/kg: 0.13, 10 and 5.06 (the midpoint 5.0625 is
\* rounded, not the mean of the rounded doses).
C16_Witness ==
    /\ Returned("calculateDoseRange")
    /\ weightKg = Num(1)
    /\ minDosePerKg = Fin(1, 8)
    /\ maxDosePerKg = Num(10)
    /\ doseRange.minDose = Fin(13, 100)
    /\ doseRange.maxDose = Num(10)
    /\ doseRange.recommendedDose = Fin(506, 100)

ValidAbsoluteMax == isFinite(absoluteMax) /\ Greater(absoluteMax, Num(0))

\* C17: for valid inputs with a valid absoluteMax, calculateDoseRange
\* returns danger when the recommended dose (the midpoint, before rounding)
\* is > absoluteMax, caution when 0.8 x absoluteMax < recommended dose <=
\* absoluteMax, and safe otherwise; with no absoluteMax it returns safe.
C17_RangeSafetyLevel ==
    (Returned("calculateDoseRange") /\ ValidRangeInputs) =>
        /\ ValidAbsoluteMax =>
              doseRange.safetyLevel =
                 IF Greater(MidpointOf(weightKg, minDosePerKg, maxDosePerKg), absoluteMax)
                 THEN "danger"
                 ELSE IF Greater(MidpointOf(weightKg, minDosePerKg, maxDosePerKg),
                                 Times(Fin(4, 5), absoluteMax))
                 THEN "caution"
                 ELSE "safe"
        /\ absoluteMax = undefined => doseRange.safetyLevel = "safe"

\* A recommended dose of 300 against a maximum of 300: caution.
C17_Witness ==
    /\ Returned("calculateDoseRange")
    /\ ValidRangeInputs
    /\ absoluteMax = Num(300)
    /\ doseRange.recommendedDose = Num(300)
    /\ doseRange.safetyLevel = "caution"

\* C18: for any invalid input (weightKg <= 0 or not finite, a negative or
\* non-finite dose per kg, or minDosePerKg > maxDosePerKg)
\* calculateDoseRange returns minDose = maxDose = recommendedDose = 0 with
\* safetyLevel = danger.
C18_InvalidRangeRejected ==
    (Returned("calculateDoseRange") /\ ~ValidRangeInputs) =>
        /\ doseRange # null
        /\ doseRange.minDose = Num(0)
        /\ doseRange.maxDose = Num(0)
        /\ doseRange.recommendedDose = Num(0)
        /\ doseRange.safetyLevel = "danger"

\* calculateDoseRange(10, 20, 10): the minimum above the maximum.
C18_Witness ==
    /\ Returned("calculateDoseRange")
    /\ weightKg = Num(10)
    /\ minDosePerKg = Num(20)
    /\ maxDosePerKg = Num(10)
    /\ doseRange.recommendedDose = Num(0)
    /\ doseRange.safetyLevel = "danger"

\* C19: for valid weight and doses per kg, an invalid absoluteMax (<= 0 or
\* not finite) gives the result of the same call with absoluteMax omitted:
\* the computed doses with safetyLevel = safe.
C19_InvalidMaximumIgnored ==
    (Returned("calculateDoseRange") /\ ValidRangeInputs
        /\ absoluteMax # undefined /\ ~ValidAbsoluteMax)
    => /\ doseRange =
             calculateDoseRange(weightKg, minDosePerKg, maxDosePerKg, undefined)
       /\ doseRange.safetyLevel = "safe"
       /\ doseRange.maxDose = toFixed(Times(maxDosePerKg, weightKg), 2)
       /\ doseRange.recommendedDose =
             toFixed(MidpointOf(weightKg, minDosePerKg, maxDosePerKg), 2)

\* An absoluteMax of -5 with doses that are not zero.
C19_Witness ==
    /\ Returned("calculateDoseRange")
    /\ ValidRangeInputs
    /\ absoluteMax = Num(-5)
    /\ doseRange.recommendedDose = Num(300)
    /\ doseRange.safetyLevel = "safe"

KilogramsOf(pd) == WeightInKgOf(NumberOf(pd.weight), pd.weightUnit)

\* Two calls that differ in the weight alone have returned, the first
\* patient being the lighter one.
LighterThenHeavier ==
    /\ Returned("calculateSafeDosage twice")
    /\ ~RateRejected(dosePerKg)
    /\ PatientValidationOf(patientData).isValid
    /\ PatientValidationOf(otherPatient).isValid
    /\ Less(KilogramsOf(patientData), KilogramsOf(otherPatient))

\* C20 as stated: for a fixed dosePerKg, medication and maximum, result is
\* strictly increasing in the weight in kilograms over the accepted
\* weights.
C20_IncreasingOverAcceptedWeights ==
    LighterThenHeavier => Less(calc.result, otherCalc.result)

\* C20 as amended: for a fixed dosePerKg, medication and maximum, result is
\* strictly increasing in the weight in kilograms over the weights for
\* which calculateSafeDosage returns a valid result.
C20_IncreasingOverValidResults ==
    (LighterThenHeavier /\ calc.validation.isValid /\ otherCalc.validation.isValid)
    => /\ Less(calc.result, otherCalc.result)
       /\ calc.result = Times(dosePerKg, KilogramsOf(patientData))
       /\ otherCalc.result = Times(dosePerKg, KilogramsOf(otherPatient))

\* 10 mg/kg for 30 kg and for 220 lbs: 300 mg and more.
C20_Witness ==
    /\ LighterThenHeavier
    /\ dosePerKg = Num(10)
    /\ patientData.weight = <<"3", "0">> /\ patientData.weightUnit = "kg"
    /\ otherPatient.weight = <<"2", "2", "0">> /\ otherPatient.weightUnit = "lbs"
    /\ calc.validation.isValid /\ otherCalc.validation.isValid
    /\ calc.result = Num(300)
    /\ Less(calc.result, otherCalc.result)

\* C15: in the App's screen flow a dose is computed and shown only for
\* patient data that passes the validation: whenever the results screen
\* shows a calculation result, validatePatientData on the current age, age
\* unit, weight and weight unit returns isValid = true.
C15_ResultOnlyForValidatedPatient ==
    (Displayed("results") /\ calculationResult # null)
        => PatientValidationOf(patientData).isValid

\* The recommended dose that calculateDosage computes.
RecommendedDoseOf(med, patient) ==
    LET kg == AppWeightInKg(patient)
        minDose == AppMinDose(med, kg)
    IN  AppRecommendedDose(minDose, AppMaxDose(med, kg, minDose))

\* C21: for a medication converted from a row of the reference data, the
\* volume of the calculation result shown is (recommendedDose / X) x Y when
\* the row's Dosage_Form text encodes "X mg per Y mL", and is omitted when
\* it does not.
C21_VolumeFromDosageForm ==
    (Displayed("results") /\ calculationResult # null) =>
        \A drug \in Drugs :
            selectedMedication = convertPediatricDrugToMedication(drug) =>
                calculationResult.volume =
                    VolumeOf(ConcentrationMatch(drug.Dosage_Form),
                             RecommendedDoseOf(selectedMedication, patientData))

\* The most severe level among the checks of validateDosage that fire for a
\* dose that is not rejected.
SeverestOf(dose, kg, max) ==
    IF Greater(Over(dose, kg), Num(75)) THEN "danger"
    ELSE IF \/ Greater(Over(dose, kg), Num(50))
            \/ (Truthy(max) /\ Greater(dose, max))
            \/ Less(Over(dose, kg), Fin(1, 1000))
         THEN "caution"
         ELSE "safe"

\* C22: the safetyLevel of a valid result of validateDosage, called directly
\* or by calculateSafeDosage, is the most severe level among the checks that
\* fired: a rate above 75 mg/kg is danger even when the dose also exceeds
\* the medication maximum or is very low.
C22_MostSevereCheck ==
    /\ (Returned("validateDosage") /\ validation.isValid) =>
          validation.safetyLevel = SeverestOf(calculatedDose, weightInKg, maxDoseValue)
    /\ (DoseValidated /\ calc.validation.isValid) =>
          calc.validation.safetyLevel =
              SeverestOf(calculatedDose, weightInKg, maxDoseValue)

\* The invocation failed with an error classified retryable.
RetryableFailure(outcome, ctx) ==
    ~outcome.resolved /\ classifyError(outcome.error, ctx).isRetryable

LastInvocation == invocations[Len(invocations)]

\* C23: retryAsyncOperation, for maxRetries >= 0, invokes the operation at
\* most maxRetries + 1 times; every invocation before the last one failed
\* with a retryable error, so nothing is invoked after a success or after a
\* non-retryable failure (one invocation when the first failure is
\* non-retryable); it gives up on a retryable failure only after
\* maxRetries + 1 invocations and then returns a failure with shouldRetry =
\* false; and the k-th wait (k = 0, 1, ...), between attempt k and attempt
\* k + 1, is baseDelay x 2^k.
C23_RetryDiscipline ==
    caller # "none" =>
        /\ Len(invocations) <= maxRetries + 1
        /\ \A i \in 1..(Len(invocations) - 1) :
              RetryableFailure(invocations[i], context)
        /\ Len(delays) = attempt
        /\ delays = [k \in 1..Len(delays) |-> baseDelay * 2^(k - 1)]
        /\ retryPc = "Attempting" => Len(invocations) = attempt
        /\ retryPc = "Waiting" =>
              /\ Len(invocations) = attempt + 1
              /\ attempt < maxRetries
              /\ RetryableFailure(LastInvocation, context)
        /\ retryPc = "Returned" =>
              /\ Len(invocations) = attempt + 1
              /\ response =
                    safeAsyncOperation(LastInvocation, context, maxRetries - attempt)
              /\ response.success = LastInvocation.resolved
              /\ ~response.success => ~response.shouldRetry
              /\ RetryableFailure(LastInvocation, context) =>
                    Len(invocations) = maxRetries + 1

\* Three attempts, all failed with a retryable error, with the waits
\* baseDelay and 2 x baseDelay between them.
C23_Witness ==
    /\ caller = "retryAsyncOperation"
    /\ retryPc = "Returned"
    /\ maxRetries = 2
    /\ Len(invocations) = 3
    /\ ~response.success
    /\ ~response.shouldRetry
    /\ response.error.isRetryable
    /\ delays = <<baseDelay, 2 * baseDelay>>

\* The invocation threw the database error that the operation of
\* fetchAllDrugs makes of an error object in the reply of the query.
ThrewDatabaseError(outcome) ==
    /\ ~outcome.resolved
    /\ \E reply \in QueryReplies :
          reply.error # null /\ outcome = QueryOutcome(reply)

\* C24: when the query of fetchAllDrugs returns an error object, the query
\* is retried, up to 2 further attempts, before fetchAllDrugs throws:
\* fetchAllDrugs throws on a database error only after 3 invocations of the
\* query.
C24_DatabaseErrorRetried ==
    (caller = "fetchAllDrugs" /\ retryPc = "Returned"
        /\ ThrewDatabaseError(LastInvocation)) =>
            /\ ~fetched.resolved
            /\ Len(invocations) = 3

\* C25: whenever calculateSafeDosage returns validation.isValid = false, the
\* result field is 0, a rate above the 100 mg/kg hard limit included.
C25_InvalidResultIsZero ==
    (DosageReturned /\ ~calc.validation.isValid) => calc.result = Num(0)

\* C26: calculateSafeDosage never returns isRecommended = true when the
\* validation of the patient data that it ran has a safetyLevel other than
\* safe.
C26_CautionedPatientNotRecommended ==
    (DosageReturned /\ calc.isRecommended) => calc.inputValidation.safetyLevel = "safe"

\* C27: every all-zero result of calculateDoseRange (minDose = maxDose =
\* recommendedDose = 0) has safetyLevel = danger: it is returned in the
\* failure case only.
C27_AllZeroIsFailure ==
    (Returned("calculateDoseRange")
        /\ doseRange.minDose = Num(0)
        /\ doseRange.maxDose = Num(0)
        /\ doseRange.recommendedDose = Num(0)) =>
            doseRange.safetyLevel = "danger"

\* C28: in the calculation result shown, isOverMax is true exactly when the
\* recommended dose exceeds the medication's own max_dose.value, isOverMax
\* implies safetyLevel = danger, and for a medication without a
\* max_dose.value isOverMax is false and safetyLevel is safe whatever the
\* dose.
C28_MaximumOnlyWhenSupplied ==
    (Displayed("results") /\ calculationResult # null) =>
        /\ calculationResult.isOverMax =
              (/\ selectedMedication.max_dose.value # undefined
               /\ Greater(RecommendedDoseOf(selectedMedication, patientData),
                          selectedMedication.max_dose.value))
        /\ calculationResult.isOverMax => calculationResult.safetyLevel = "danger"
        /\ selectedMedication.max_dose.value = undefined =>
              /\ ~calculationResult.isOverMax
              /\ calculationResult.safetyLevel = "safe"

\* C29: whenever the current screen is the results screen, the calculation
\* result is not null and is the one that calculateDosage computes from the
\* current patient data and the current selected medication; and New
\* Patient, the step from the results screen to the home screen, leaves the
\* age, the weight, the selected medication and the calculation result
\* cleared.
C29_ResultIsCurrent ==
    /\ [](currentScreen = "results" =>
            /\ calculationResult # null
            /\ selectedMedication # null
            /\ calculationResult = CalculationOf(selectedMedication, patientData))
    /\ [][(currentScreen = "results" /\ currentScreen' = "home") =>
            /\ patientData' = PatientData(<<>>, "years", <<>>, "kg")
            /\ selectedMedication' = null
            /\ calculationResult' = null]_vars

\* The results screen shown for Ibuprofen and a valid patient of 20 kg.
C29_Witness ==
    /\ Displayed("results")
    /\ selectedMedication # null
    /\ selectedMedication.name = "Ibuprofen"
    /\ patientData = PatientData(<<"5">>, "years", <<"2", "0">>, "kg")
    /\ calculationResult # null
    /\ calculationResult.dose = Num(150)


\* C30: in PatientInputScreen, after a rejected Next, whenever the age and
\* the weight are non-empty and validatePatientData accepts the current
\* data, formState.errors is empty and the Next button is enabled.
C30_CorrectedFormIsUnblocked ==
    (/\ nextRejected
     /\ ~advanced
     /\ patientData.age # <<>>
     /\ patientData.weight # <<>>
     /\ PatientValidationOf(patientData).isValid)
    => (formState.errors = <<>> /\ ~NextDisabled)

====
